---- MODULE Spec2Model ----
(***************************************************************************)
(* A model of the redlite Python SDK client (sdks/redlite-python): the     *)
(* Redlite session object, its lifecycle, its value codec and the part of  *)
(* its command surface that talks to the native engine (embedded mode) or  *)
(* to redis-py (server mode).                                              *)
(*                                                                         *)
(* Strings that the code inspects character by character (the connection   *)
(* URL) are sequences of one-character strings; byte strings are sequences *)
(* of integers 0..255; Python values are tagged records.                   *)
(***************************************************************************)
EXTENDS Integers, Sequences, FiniteSets, TLC

VARIABLES
  phase,      \* position of the object: "uninit", "constructed", "failed", "collected", "failed_collected"
  url,        \* self._url
  mode,       \* self._mode ("unset" before __init__ assigns it)
  handle,     \* self._handle: "None", "NULL" (ffi.NULL) or "H" (a native handle)
  redis,      \* self._redis: "None" or "R" (a redis-py client)
  live,       \* the backend resource opened for this session is still held
  releases,   \* backend close calls made on a live resource
  nullCloses, \* redlite_close calls made with a handle that is not a live resource
  closedHist, \* close() has been called on the constructed session
  engine,     \* the backend opened by the constructor: "none", "memory", "file", "network"
  lastError,  \* the native library's pending error message ("" when none)
  store,      \* the backend's data: key -> entry
  now,        \* the backend's clock, in milliseconds
  last,       \* outcome of the last call made on the object
  selected,   \* the logical database the session's connection has selected
  parked,     \* the data of the logical databases (the selected one's is in store)
  threads,    \* the worker threads sharing the session: position and calls completed
  peer,       \* a second session object of the same process, with its backend's data
  runner      \* the oracle runner: its counters, error list and place in a test

vars == <<phase, url, mode, handle, redis, live, releases, nullCloses,
          closedHist, engine, lastError, store, now, last,
          selected, parked, threads, peer, runner>>

sessVars == <<phase, url, mode, handle, redis, live, releases, nullCloses,
              closedHist, engine>>

auxVars == <<selected, parked, threads, peer, runner>>

----------------------------------------------------------------------------
(* Connection strings                                                      *)

MemoryUrl == <<":", "m", "e", "m", "o", "r", "y", ":">>
RedisScheme == <<"r", "e", "d", "i", "s", ":", "/", "/">>
RedissScheme == <<"r", "e", "d", "i", "s", "s", ":", "/", "/">>

\* str.startswith(prefix)
StartsWith(s, p) == Len(s) >= Len(p) /\ SubSeq(s, 1, Len(p)) = p

\* the connection strings tried by the model
Urls == { MemoryUrl,
          RedisScheme \o <<"h">>,
          RedissScheme \o <<"h">>,
          <<"/", "d", "b">>,
          <<>>,
          <<"r", "e", "d", "i", "s", ":", "/">>,
          <<"r", "e", "d", "i", "s", "s", ":", "/">>,
          <<"R", "E", "D", "I", "S", ":", "/", "/", "h">>,
          <<"x">> \o RedisScheme \o <<"h">>,
          <<":", "m", "e", "m", "o", "r", "y">> }

----------------------------------------------------------------------------
(* Python values                                                           *)

PyNone == [t |-> "None"]
PyBytes(b) == [t |-> "bytes", b |-> b]
PyInt(i) == [t |-> "int", i |-> i]
PyBool(x) == [t |-> "bool", x |-> x]
PyList(l) == [t |-> "list", l |-> l]
PySet(s) == [t |-> "set", s |-> s]
PyStr(s) == [t |-> "str", s |-> s]

PyFloat(n) == [t |-> "float", tenths |-> n]   \* the float n/10

\* the record kept of a call: the method and its arguments, whether it
\* returned or raised, the backend calls it made, the failure the backend
\* reported to it, and whether close() had been called before it
NoCall == [op |-> "none", arg |-> PyNone, kind |-> "none", val |-> PyNone, err |-> "",
           calls |-> 0, bfail |-> "", afterClose |-> FALSE, wasLive |-> FALSE,
           cls |-> ""]

\* exception classes: the two RedliteError classes of the package, redis-py's
\* error class, and the built-in ones
FfiRedliteError == "redlite._ffi.RedliteError"
PackageRedliteError == "redlite.RedliteError"
RedisError == "redis.exceptions.RedisError"
BuiltinErrors == {"TypeError", "AttributeError", "NotImplementedError", "ImportError",
                  "OSError"}

\* what a method call leaves behind: a returned value or a raised exception,
\* the number of backend calls it made, the failure the backend reported
\* (bfail, "" when none) and the backend state after it
Ret(v, c, bf, st, le) ==
  [kind |-> "return", val |-> v, err |-> "", calls |-> c, bfail |-> bf,
   store |-> st, lastError |-> le, cls |-> ""]

\* raise _ffi.RedliteError(e), or the built-in exception named e
Raise(e, c, bf, st, le) ==
  [kind |-> "raise", val |-> PyNone, err |-> e, calls |-> c, bfail |-> bf,
   store |-> st, lastError |-> le,
   cls |-> IF e \in BuiltinErrors THEN e ELSE FfiRedliteError]

\* an exception raised inside redis-py
RedisRaise(e, c, bf, st, le) ==
  [Raise(e, c, bf, st, le) EXCEPT !.cls = RedisError]

----------------------------------------------------------------------------
(* _ffi.check_error: take the pending error of the native library          *)

check_error(le) ==
  [raised |-> le # "", msg |-> le, lastError |-> ""]

\* the statement pair "if <failure code>: _ffi.check_error()" followed by
\* "return v": raises the pending message, else returns v
CheckThenReturn(failed, v, bf, st, le) ==
  IF failed
  THEN LET ce == check_error(le)
       IN IF ce.raised THEN Raise(ce.msg, 2, bf, st, ce.lastError)
                       ELSE Ret(v, 2, bf, st, ce.lastError)
  ELSE Ret(v, 1, bf, st, le)

----------------------------------------------------------------------------
(* Session lifecycle                                                       *)

\* __init__ recognising only the redis:// scheme
Redlite_init_plain_only(u, libOk, openOk, msg, redisOk) ==
  IF StartsWith(u, RedisScheme)
  THEN [mode |-> "server", handle |-> "None", redis |-> IF redisOk THEN "R" ELSE "None",
        live |-> redisOk, engine |-> IF redisOk THEN "network" ELSE "none",
        kind |-> IF redisOk THEN "return" ELSE "raise",
        err |-> IF redisOk THEN "" ELSE "ImportError", lastError |-> lastError]
  ELSE [mode |-> "embedded", handle |-> IF libOk /\ openOk THEN "H" ELSE "None",
        redis |-> "None", live |-> libOk /\ openOk,
        engine |-> IF libOk /\ openOk
                   THEN (IF u = MemoryUrl THEN "memory" ELSE "file") ELSE "none",
        kind |-> IF libOk /\ openOk THEN "return" ELSE "raise",
        err |-> IF libOk /\ openOk THEN "" ELSE "Failed to open database",
        lastError |-> lastError]

\* Redlite.__init__: libOk - the shared library is found; openOk - the
\* native open returns a handle; msg - the error the failed open left
\* pending ("" when none); redisOk - redis-py can be imported
Redlite_init(u, libOk, openOk, msg, redisOk) ==
  IF StartsWith(u, RedisScheme) \/ StartsWith(u, RedissScheme)
  THEN IF redisOk
       THEN [mode |-> "server", handle |-> "None", redis |-> "R", live |-> TRUE,
             engine |-> "network", kind |-> "return", err |-> "", lastError |-> lastError]
       ELSE [mode |-> "server", handle |-> "None", redis |-> "None", live |-> FALSE,
             engine |-> "none", kind |-> "raise", err |-> "ImportError", lastError |-> lastError]
  ELSE IF ~libOk
       THEN [mode |-> "embedded", handle |-> "None", redis |-> "None", live |-> FALSE,
             engine |-> "none", kind |-> "raise", err |-> "OSError", lastError |-> lastError]
       ELSE LET eng == IF u = MemoryUrl THEN "memory" ELSE "file"
            IN IF openOk
               THEN [mode |-> "embedded", handle |-> "H", redis |-> "None", live |-> TRUE,
                     engine |-> eng, kind |-> "return", err |-> "", lastError |-> lastError]
               ELSE LET ce == check_error(msg)
                    IN [mode |-> "embedded", handle |-> "NULL", redis |-> "None",
                        live |-> FALSE, engine |-> "none", kind |-> "raise",
                        err |-> IF ce.raised THEN ce.msg ELSE "Failed to open database",
                        lastError |-> ce.lastError]

\* Redlite.mode
Redlite_mode == mode

\* _check_open that forgets the server branch
check_open_embedded_only ==
  IF mode = "embedded" /\ handle = "None" THEN "Database is closed" ELSE "ok"

\* Redlite._check_open: the message of the error it raises, "ok" when it passes
check_open ==
  IF mode = "embedded" /\ handle = "None" THEN "Database is closed"
  ELSE IF mode = "server" /\ redis = "None" THEN "Connection is closed"
  ELSE "ok"

\* close() that does not clear self._handle
close_keeps_handle ==
  IF mode = "embedded" /\ handle # "None"
  THEN [call |-> "redlite_close", arg |-> handle, handle |-> handle, redis |-> redis]
  ELSE IF mode = "server" /\ redis # "None"
  THEN [call |-> "redis.close", arg |-> redis, handle |-> handle, redis |-> "None"]
  ELSE [call |-> "none", arg |-> "None", handle |-> handle, redis |-> redis]

\* Redlite.close: the backend call it makes ("none" when it makes none), the
\* argument it passes and the fields it leaves
close ==
  IF mode = "embedded" /\ handle # "None"
  THEN [call |-> "redlite_close", arg |-> handle, handle |-> "None", redis |-> redis]
  ELSE IF mode = "server" /\ redis # "None"
  THEN [call |-> "redis.close", arg |-> redis, handle |-> handle, redis |-> "None"]
  ELSE [call |-> "none", arg |-> "None", handle |-> handle, redis |-> redis]

----------------------------------------------------------------------------
(* Value codec                                                             *)

\* str.encode("utf-8") of one code point
Utf8(c) ==
  IF c < 128 THEN <<c>>
  ELSE IF c < 2048 THEN <<192 + (c \div 64), 128 + (c % 64)>>
  ELSE IF c < 65536
       THEN <<224 + (c \div 4096), 128 + ((c \div 64) % 64), 128 + (c % 64)>>
       ELSE <<240 + (c \div 262144), 128 + ((c \div 4096) % 64),
              128 + ((c \div 64) % 64), 128 + (c % 64)>>

RECURSIVE Utf8Encode(_)
Utf8Encode(s) == IF s = <<>> THEN <<>> ELSE Utf8(Head(s)) \o Utf8Encode(Tail(s))

\* the ASCII decimal digits of a natural number
RECURSIVE Digits(_)
Digits(n) == IF n < 10 THEN <<48 + n>> ELSE Digits(n \div 10) \o <<48 + (n % 10)>>

\* str(int)
StrInt(i) == IF i < 0 THEN <<45>> \o Digits(-i) ELSE Digits(i)

\* str(float) of the float n/10, which Python prints with one decimal
StrFloat(n) ==
  LET a == IF n < 0 THEN -n ELSE n
  IN (IF n < 0 THEN <<45>> ELSE <<>>) \o Digits(a \div 10) \o <<46>> \o Digits(a % 10)

\* the UTF-8 bytes of the names the model uses for keys, hash fields and
\* the "bytes" marker of the oracle format
NameBytes ==
  [k1 |-> <<107, 49>>, k2 |-> <<107, 50>>, f1 |-> <<102, 49>>, f2 |-> <<102, 50>>,
   bytes |-> <<98, 121, 116, 101, 115>>]

\* the items of a container display, separated by ", "
RECURSIVE JoinComma(_)
JoinComma(parts) ==
  IF parts = <<>> THEN <<>>
  ELSE IF Len(parts) = 1 THEN parts[1]
  ELSE parts[1] \o <<44, 32>> \o JoinComma(Tail(parts))

\* str(value).encode("utf-8") of a number, None, a bool, a text or byte
\* string of printable ASCII inside a container, a list or a dict
RECURSIVE StrOf(_)
StrOf(value) ==
  CASE value.t = "int" -> StrInt(value.i)
    [] value.t = "float" -> StrFloat(value.tenths)
    [] value.t = "None" -> <<78, 111, 110, 101>>
    [] value.t = "bool" -> IF value.x THEN <<84, 114, 117, 101>>
                                      ELSE <<70, 97, 108, 115, 101>>
    [] value.t = "str" -> <<39>> \o Utf8Encode(value.s) \o <<39>>
    [] value.t = "name" -> <<39>> \o NameBytes[value.n] \o <<39>>
    [] value.t = "bytes" -> <<98, 39>> \o value.b \o <<39>>
    [] value.t = "list" ->
         <<91>> \o JoinComma([i \in 1..Len(value.l) |-> StrOf(value.l[i])]) \o <<93>>
    [] value.t = "dict" ->
         <<123>> \o JoinComma([i \in 1..Len(value.d) |->
                                StrOf(value.d[i][1]) \o <<58, 32>>
                                \o StrOf(value.d[i][2])]) \o <<125>>

\* _encode_value keeping one byte per character of a text
encode_value_one_byte(value) ==
  IF value.t = "bytes" THEN value.b
  ELSE IF value.t = "str" THEN [i \in 1..Len(value.s) |-> value.s[i] % 256]
  ELSE IF value.t = "int" THEN StrInt(value.i)
  ELSE StrFloat(value.tenths)

\* Redlite._encode_value
encode_value(value) ==
  IF value.t = "bytes" THEN value.b
  ELSE IF value.t = "str" THEN Utf8Encode(value.s)
  ELSE StrOf(value)

\* a RedliteBytes struct returned by the native library
RedliteBytes(isNull, buf) == [null |-> isNull, len |-> Len(buf), buf |-> buf]
NullBytes == RedliteBytes(TRUE, <<>>)

\* _ffi.bytes_to_python
bytes_to_python(rb) ==
  IF rb.null \/ rb.len = 0 THEN PyNone ELSE PyBytes(SubSeq(rb.buf, 1, rb.len))

\* a RedliteBytesArray struct returned by the native library
RedliteBytesArray(isNull, items) == [null |-> isNull, len |-> Len(items), items |-> items]
NullArray == RedliteBytesArray(TRUE, <<>>)

\* _ffi.bytes_array_to_python
bytes_array_to_python(arr) ==
  IF ~arr.null /\ arr.len > 0
  THEN [i \in 1..arr.len |->
          IF ~arr.items[i].null /\ arr.items[i].len > 0
          THEN PyBytes(SubSeq(arr.items[i].buf, 1, arr.items[i].len))
          ELSE PyNone]
  ELSE <<>>

\* Redlite._make_bytes_array: the RedliteBytes items handed to the library
make_bytes_array(byte_values) ==
  [i \in 1..Len(byte_values) |->
     IF byte_values[i] # <<>> THEN RedliteBytes(FALSE, byte_values[i]) ELSE NullBytes]

----------------------------------------------------------------------------
(* The storage engine behind both backends: keys, typed entries, expiry    *)

Keys == {"k1", "k2"}
Fields == {"f1", "f2"}

NoExpiry == -1
NoEntry == [t |-> "none"]
StrEntry(v, exp) == [t |-> "string", v |-> v, exp |-> exp]
HashEntry(h, exp) == [t |-> "hash", h |-> h, exp |-> exp]
ListEntry(l, exp) == [t |-> "list", l |-> l, exp |-> exp]
SetEntry(m, exp) == [t |-> "set", m |-> m, exp |-> exp]

EngineFailure == "ERR engine failure"
WrongType == "WRONGTYPE Operation against a key holding the wrong kind of value"

\* an entry whose expiry time has passed is gone
Lookup(k) ==
  LET e == store[k]
  IN IF e.t # "none" /\ (e.exp = NoExpiry \/ e.exp > now) THEN e ELSE NoEntry

ExpOf(e) == IF e.t = "none" THEN NoExpiry ELSE e.exp

\* the bytes a RedliteBytes argument points at
Pointee(rb) == IF rb.null THEN <<>> ELSE SubSeq(rb.buf, 1, rb.len)

\* the elements of a finite set, in some order
RECURSIVE SetToSeq(_)
SetToSeq(S) == IF S = {} THEN <<>> ELSE LET x == CHOOSE y \in S : TRUE
                                      IN <<x>> \o SetToSeq(S \ {x})

Reverse(q) == [i \in 1..Len(q) |-> q[Len(q) + 1 - i]]

Range(q) == {q[i] : i \in 1..Len(q)}

\* the reply of a native call: its return value, the failure it reports
\* and the state it leaves
Reply(ret, bf, st) ==
  [ret |-> ret, bfail |-> bf, store |-> st,
   lastError |-> IF bf # "" THEN bf ELSE lastError]

\* int redlite_set(db, key, value, value_len, ttl_seconds)
redlite_set(key, value, value_len, ttl_seconds, fault) ==
  IF fault THEN Reply(-1, EngineFailure, store)
  ELSE Reply(0, "",
             [store EXCEPT ![key] =
                StrEntry(SubSeq(value, 1, value_len),
                         IF ttl_seconds > 0 THEN now + ttl_seconds * 1000 ELSE NoExpiry)])

\* RedliteBytes redlite_get(db, key)
redlite_get(key, fault) ==
  LET e == Lookup(key)
  IN IF fault THEN Reply(NullBytes, EngineFailure, store)
     ELSE IF e.t = "none" THEN Reply(NullBytes, "", store)
     ELSE IF e.t = "string" THEN Reply(RedliteBytes(FALSE, e.v), "", store)
     ELSE Reply(NullBytes, WrongType, store)

\* int64_t redlite_del(db, keys, keys_len)
redlite_del(keys, keys_len, fault) ==
  LET gone == {keys[i] : i \in 1..keys_len}
  IN IF fault THEN Reply(-1, EngineFailure, store)
     ELSE Reply(Cardinality({k \in gone : Lookup(k).t # "none"}), "",
                [k \in Keys |-> IF k \in gone THEN NoEntry ELSE store[k]])

\* int64_t redlite_ttl(db, key): -2 missing, -1 no expiry, -3 failure
redlite_ttl(key, fault) ==
  LET e == Lookup(key)
  IN IF fault THEN Reply(-3, EngineFailure, store)
     ELSE IF e.t = "none" THEN Reply(-2, "", store)
     ELSE IF e.exp = NoExpiry THEN Reply(-1, "", store)
     ELSE Reply((e.exp - now) \div 1000, "", store)

\* int64_t redlite_pttl(db, key)
redlite_pttl(key, fault) ==
  LET e == Lookup(key)
  IN IF fault THEN Reply(-3, EngineFailure, store)
     ELSE IF e.t = "none" THEN Reply(-2, "", store)
     ELSE IF e.exp = NoExpiry THEN Reply(-1, "", store)
     ELSE Reply(e.exp - now, "", store)

\* int64_t redlite_hset(db, key, fields, values, count): number of new fields
redlite_hset(key, fields, values, count, fault) ==
  LET e == Lookup(key)
      old == IF e.t = "hash" THEN e.h ELSE <<>>
      given == {fields[i] : i \in 1..count}
      lastOf(f) == CHOOSE i \in 1..count :
                     fields[i] = f /\ \A j \in (i + 1)..count : fields[j] # f
      new == [f \in (DOMAIN old) \cup given |->
                IF f \in given THEN Pointee(values[lastOf(f)]) ELSE old[f]]
  IN IF fault THEN Reply(-1, EngineFailure, store)
     ELSE IF e.t \notin {"none", "hash"} THEN Reply(-1, WrongType, store)
     ELSE Reply(Cardinality(given \ DOMAIN old), "",
                [store EXCEPT ![key] = HashEntry(new, ExpOf(e))])

\* RedliteBytes redlite_hget(db, key, field)
redlite_hget(key, field, fault) ==
  LET e == Lookup(key)
  IN IF fault THEN Reply(NullBytes, EngineFailure, store)
     ELSE IF e.t = "none" THEN Reply(NullBytes, "", store)
     ELSE IF e.t # "hash" THEN Reply(NullBytes, WrongType, store)
     ELSE IF field \in DOMAIN e.h THEN Reply(RedliteBytes(FALSE, e.h[field]), "", store)
     ELSE Reply(NullBytes, "", store)

\* int64_t redlite_lpush(db, key, values, values_len): each value in turn
\* becomes the new head; returns the new length
redlite_lpush(key, values, values_len, fault) ==
  LET e == Lookup(key)
      old == IF e.t = "list" THEN e.l ELSE <<>>
      new == Reverse([i \in 1..values_len |-> Pointee(values[i])]) \o old
  IN IF fault THEN Reply(-1, EngineFailure, store)
     ELSE IF e.t \notin {"none", "list"} THEN Reply(-1, WrongType, store)
     ELSE Reply(Len(new), "", [store EXCEPT ![key] = ListEntry(new, ExpOf(e))])

\* int64_t redlite_rpush(db, key, values, values_len)
redlite_rpush(key, values, values_len, fault) ==
  LET e == Lookup(key)
      old == IF e.t = "list" THEN e.l ELSE <<>>
      new == old \o [i \in 1..values_len |-> Pointee(values[i])]
  IN IF fault THEN Reply(-1, EngineFailure, store)
     ELSE IF e.t \notin {"none", "list"} THEN Reply(-1, WrongType, store)
     ELSE Reply(Len(new), "", [store EXCEPT ![key] = ListEntry(new, ExpOf(e))])

\* RedliteBytesArray redlite_lrange(db, key, start, stop): zero-based,
\* inclusive, negative indexes count from the tail
redlite_lrange(key, start, stop, fault) ==
  LET e == Lookup(key)
      l == IF e.t = "list" THEN e.l ELSE <<>>
      a0 == IF start < 0 THEN Len(l) + start ELSE start
      a == IF a0 < 0 THEN 0 ELSE a0
      b0 == IF stop < 0 THEN Len(l) + stop ELSE stop
      b == IF b0 > Len(l) - 1 THEN Len(l) - 1 ELSE b0
      part == IF a > b THEN <<>> ELSE SubSeq(l, a + 1, b + 1)
  IN IF fault THEN Reply(NullArray, EngineFailure, store)
     ELSE IF e.t \notin {"none", "list"} THEN Reply(NullArray, WrongType, store)
     ELSE Reply(RedliteBytesArray(FALSE, [i \in 1..Len(part) |-> RedliteBytes(FALSE, part[i])]),
                "", store)

\* int64_t redlite_sadd(db, key, members, members_len): number of new members
redlite_sadd(key, members, members_len, fault) ==
  LET e == Lookup(key)
      old == IF e.t = "set" THEN e.m ELSE {}
      given == {Pointee(members[i]) : i \in 1..members_len}
  IN IF fault THEN Reply(-1, EngineFailure, store)
     ELSE IF e.t \notin {"none", "set"} THEN Reply(-1, WrongType, store)
     ELSE Reply(Cardinality(given \ old), "",
                [store EXCEPT ![key] = SetEntry(old \cup given, ExpOf(e))])

\* RedliteBytesArray redlite_smembers(db, key)
redlite_smembers(key, fault) ==
  LET e == Lookup(key)
      q == IF e.t = "set" THEN SetToSeq(e.m) ELSE <<>>
  IN IF fault THEN Reply(NullArray, EngineFailure, store)
     ELSE IF e.t \notin {"none", "set"} THEN Reply(NullArray, WrongType, store)
     ELSE Reply(RedliteBytesArray(FALSE, [i \in 1..Len(q) |-> RedliteBytes(FALSE, q[i])]),
                "", store)

----------------------------------------------------------------------------
(* Server mode: redis-py calls against a Redis-compatible server           *)

\* redis-py raises what the server reports and returns the decoded reply
FromServer(r, v) ==
  IF r.bfail # "" THEN RedisRaise(r.bfail, 1, r.bfail, store, lastError)
  ELSE Ret(v, 1, "", r.store, lastError)

\* redis-py's encoder: bytes unchanged, str as UTF-8, numbers as repr()
redis_encode(value) ==
  CASE value.t = "bytes" -> value.b
    [] value.t = "str" -> Utf8Encode(value.s)
    [] value.t = "int" -> StrInt(value.i)
    [] value.t = "float" -> StrFloat(value.tenths)

\* a bulk string of the wire protocol (its length travels with it)
Bulk(b) == RedliteBytes(FALSE, b)
FromBulk(rb) == IF rb.null THEN PyNone ELSE PyBytes(rb.buf)

NoOpt == -1    \* an option that was not given (ex=None, px=None)

redis_get(key, fault) ==
  LET r == redlite_get(key, fault) IN FromServer(r, FromBulk(r.ret))

\* SET key value [EX ex] [PX px] [NX|XX]
redis_set(key, value, ex, px, nx, xx, fault) ==
  LET e == Lookup(key)
      exp == IF ex # NoOpt THEN now + ex * 1000
             ELSE IF px # NoOpt THEN now + px ELSE NoExpiry
  IN IF fault THEN RedisRaise(EngineFailure, 1, EngineFailure, store, lastError)
     ELSE IF ex = 0 \/ px = 0
     THEN RedisRaise("ERR invalid expire time in 'set' command", 1,
                     "ERR invalid expire time in 'set' command", store, lastError)
     ELSE IF (nx /\ e.t # "none") \/ (xx /\ e.t = "none")
     THEN Ret(PyNone, 1, "", store, lastError)
     ELSE Ret(PyBool(TRUE), 1, "",
              [store EXCEPT ![key] = StrEntry(redis_encode(value), exp)], lastError)

redis_delete(keys, fault) ==
  LET r == redlite_del(keys, Len(keys), fault) IN FromServer(r, PyInt(r.ret))

redis_ttl(key, fault) ==
  LET r == redlite_ttl(key, fault) IN FromServer(r, PyInt(r.ret))

redis_pttl(key, fault) ==
  LET r == redlite_pttl(key, fault) IN FromServer(r, PyInt(r.ret))

redis_hset(key, items, fault) ==
  LET r == redlite_hset(key, [i \in 1..Len(items) |-> items[i][1]],
                        [i \in 1..Len(items) |-> Bulk(redis_encode(items[i][2]))],
                        Len(items), fault)
  IN FromServer(r, PyInt(r.ret))

redis_hget(key, field, fault) ==
  LET r == redlite_hget(key, field, fault) IN FromServer(r, FromBulk(r.ret))

redis_lpush(key, values, fault) ==
  LET r == redlite_lpush(key, [i \in 1..Len(values) |-> Bulk(redis_encode(values[i]))],
                         Len(values), fault)
  IN FromServer(r, PyInt(r.ret))

redis_rpush(key, values, fault) ==
  LET r == redlite_rpush(key, [i \in 1..Len(values) |-> Bulk(redis_encode(values[i]))],
                         Len(values), fault)
  IN FromServer(r, PyInt(r.ret))

redis_lrange(key, start, stop, fault) ==
  LET r == redlite_lrange(key, start, stop, fault)
  IN FromServer(r, PyList([i \in 1..r.ret.len |-> FromBulk(r.ret.items[i])]))

redis_sadd(key, members, fault) ==
  LET r == redlite_sadd(key, [i \in 1..Len(members) |-> Bulk(redis_encode(members[i]))],
                        Len(members), fault)
  IN FromServer(r, PyInt(r.ret))

redis_smembers(key, fault) ==
  LET r == redlite_smembers(key, fault)
  IN FromServer(r, PySet({FromBulk(r.ret.items[i]) : i \in 1..r.ret.len}))

\* redis-py execute_command(*args): the server's reply to a raw command
redis_execute_command(args, fault) ==
  IF fault THEN RedisRaise(EngineFailure, 1, EngineFailure, store, lastError)
  ELSE Ret([t |-> "reply", to |-> args], 1, "", store, lastError)

----------------------------------------------------------------------------
(* The command surface of Redlite                                          *)

\* the error _check_open raises
Closed == Raise(check_open, 0, "", store, lastError)

\* a call through self._lib with self._handle: cffi rejects None
Native(out) ==
  IF handle = "None" THEN Raise("TypeError", 0, "", store, lastError) ELSE out

\* a call through self._redis: None has no methods
Server(out) ==
  IF redis = "None" THEN Raise("AttributeError", 0, "", store, lastError) ELSE out

\* dict.update(pairs): a present key keeps its place and takes the new value
RECURSIVE DictUpdate(_, _)
DictUpdate(d, pairs) ==
  IF pairs = <<>> THEN d
  ELSE LET p == Head(pairs)
           at == {i \in 1..Len(d) : d[i][1] = p[1]}
       IN DictUpdate(IF at = {} THEN Append(d, p)
                     ELSE [i \in 1..Len(d) |-> IF i \in at THEN p ELSE d[i]],
                     Tail(pairs))

\* Redlite.get
get(key, fault) ==
  IF check_open # "ok" THEN Closed
  ELSE IF mode = "server" THEN Server(redis_get(key, fault))
  ELSE Native(LET r == redlite_get(key, fault)
              IN Ret(bytes_to_python(r.ret), 1, r.bfail, r.store, r.lastError))

\* Redlite.set
set(key, value, ex, px, nx, xx, fault) ==
  IF check_open # "ok" THEN Closed
  ELSE IF mode = "server" THEN Server(redis_set(key, value, ex, px, nx, xx, fault))
  ELSE Native(LET value_bytes == encode_value(value)
                  ttl_seconds == IF ex # NoOpt THEN ex
                                 ELSE IF px # NoOpt THEN px \div 1000 ELSE 0
                  r == redlite_set(key, value_bytes, Len(value_bytes), ttl_seconds, fault)
              IN CheckThenReturn(r.ret < 0, PyBool(r.ret = 0), r.bfail, r.store, r.lastError))

\* Redlite.delete
delete(keys, fault) ==
  IF check_open # "ok" THEN Closed
  ELSE IF keys = <<>> THEN Ret(PyInt(0), 0, "", store, lastError)
  ELSE IF mode = "server" THEN Server(redis_delete(keys, fault))
  ELSE Native(LET r == redlite_del(keys, Len(keys), fault)
              IN CheckThenReturn(r.ret < 0, PyInt(r.ret), r.bfail, r.store, r.lastError))

\* ttl() that hands the failure code on as "missing" without check_error
ttl_masks_failure(key, fault) ==
  IF check_open # "ok" THEN Closed
  ELSE IF mode = "server" THEN Server(redis_ttl(key, fault))
  ELSE Native(LET r == redlite_ttl(key, fault)
              IN Ret(PyInt(IF r.ret = -3 THEN -2 ELSE r.ret), 1, r.bfail,
                     r.store, r.lastError))

\* Redlite.ttl
ttl(key, fault) ==
  IF check_open # "ok" THEN Closed
  ELSE IF mode = "server" THEN Server(redis_ttl(key, fault))
  ELSE Native(LET r == redlite_ttl(key, fault)
              IN CheckThenReturn(r.ret = -3, PyInt(r.ret), r.bfail, r.store, r.lastError))

\* Redlite.pttl
pttl(key, fault) ==
  IF check_open # "ok" THEN Closed
  ELSE IF mode = "server" THEN Server(redis_pttl(key, fault))
  ELSE Native(LET r == redlite_pttl(key, fault)
              IN CheckThenReturn(r.ret = -3, PyInt(r.ret), r.bfail, r.store, r.lastError))

\* hset() returning the number of fields it sent
hset_counts_processed(key, mapping, kwargs, fault) ==
  LET items == DictUpdate(DictUpdate(<<>>, mapping), kwargs)
  IN IF check_open # "ok" THEN Closed
     ELSE IF items = <<>> THEN Ret(PyInt(0), 0, "", store, lastError)
     ELSE IF mode = "server" THEN Server(redis_hset(key, items, fault))
     ELSE Native(LET fields == [i \in 1..Len(items) |-> items[i][1]]
                     values == [i \in 1..Len(items) |-> encode_value(items[i][2])]
                     r == redlite_hset(key, fields, make_bytes_array(values),
                                       Len(items), fault)
                 IN CheckThenReturn(r.ret < 0, PyInt(Len(items)), r.bfail, r.store,
                                    r.lastError))

\* Redlite.hset
hset(key, mapping, kwargs, fault) ==
  LET items == DictUpdate(DictUpdate(<<>>, mapping), kwargs)
  IN IF check_open # "ok" THEN Closed
     ELSE IF items = <<>> THEN Ret(PyInt(0), 0, "", store, lastError)
     ELSE IF mode = "server" THEN Server(redis_hset(key, items, fault))
     ELSE Native(LET fields == [i \in 1..Len(items) |-> items[i][1]]
                     values == [i \in 1..Len(items) |-> encode_value(items[i][2])]
                     r == redlite_hset(key, fields, make_bytes_array(values),
                                       Len(items), fault)
                 IN CheckThenReturn(r.ret < 0, PyInt(r.ret), r.bfail, r.store, r.lastError))

\* Redlite.hget
hget(key, field, fault) ==
  IF check_open # "ok" THEN Closed
  ELSE IF mode = "server" THEN Server(redis_hget(key, field, fault))
  ELSE Native(LET r == redlite_hget(key, field, fault)
              IN Ret(bytes_to_python(r.ret), 1, r.bfail, r.store, r.lastError))

\* lpush() handing the values over last first
lpush_last_first(key, values, fault) ==
  IF check_open # "ok" THEN Closed
  ELSE IF values = <<>> THEN Ret(PyInt(0), 0, "", store, lastError)
  ELSE IF mode = "server" THEN Server(redis_lpush(key, values, fault))
  ELSE Native(LET encoded == Reverse([i \in 1..Len(values) |-> encode_value(values[i])])
                  r == redlite_lpush(key, make_bytes_array(encoded), Len(values), fault)
              IN CheckThenReturn(r.ret < 0, PyInt(r.ret), r.bfail, r.store, r.lastError))

\* Redlite.lpush
lpush(key, values, fault) ==
  IF check_open # "ok" THEN Closed
  ELSE IF values = <<>> THEN Ret(PyInt(0), 0, "", store, lastError)
  ELSE IF mode = "server" THEN Server(redis_lpush(key, values, fault))
  ELSE Native(LET encoded == [i \in 1..Len(values) |-> encode_value(values[i])]
                  r == redlite_lpush(key, make_bytes_array(encoded), Len(values), fault)
              IN CheckThenReturn(r.ret < 0, PyInt(r.ret), r.bfail, r.store, r.lastError))

\* Redlite.rpush
rpush(key, values, fault) ==
  IF check_open # "ok" THEN Closed
  ELSE IF values = <<>> THEN Ret(PyInt(0), 0, "", store, lastError)
  ELSE IF mode = "server" THEN Server(redis_rpush(key, values, fault))
  ELSE Native(LET encoded == [i \in 1..Len(values) |-> encode_value(values[i])]
                  r == redlite_rpush(key, make_bytes_array(encoded), Len(values), fault)
              IN CheckThenReturn(r.ret < 0, PyInt(r.ret), r.bfail, r.store, r.lastError))

\* Redlite.lrange
lrange(key, start, stop, fault) ==
  IF check_open # "ok" THEN Closed
  ELSE IF mode = "server" THEN Server(redis_lrange(key, start, stop, fault))
  ELSE Native(LET r == redlite_lrange(key, start, stop, fault)
              IN Ret(PyList(bytes_array_to_python(r.ret)), 1, r.bfail, r.store, r.lastError))

\* Redlite.sadd
sadd(key, members, fault) ==
  IF check_open # "ok" THEN Closed
  ELSE IF members = <<>> THEN Ret(PyInt(0), 0, "", store, lastError)
  ELSE IF mode = "server" THEN Server(redis_sadd(key, members, fault))
  ELSE Native(LET encoded == [i \in 1..Len(members) |-> encode_value(members[i])]
                  r == redlite_sadd(key, make_bytes_array(encoded), Len(members), fault)
              IN CheckThenReturn(r.ret < 0, PyInt(r.ret), r.bfail, r.store, r.lastError))

\* Redlite.smembers
smembers(key, fault) ==
  IF check_open # "ok" THEN Closed
  ELSE IF mode = "server" THEN Server(redis_smembers(key, fault))
  ELSE Native(LET r == redlite_smembers(key, fault)
              IN Ret(PySet(Range(bytes_array_to_python(r.ret))), 1, r.bfail,
                     r.store, r.lastError))

\* Redlite._execute, the raw-command path of the fts/vector/geo namespaces
execute(args, fault) ==
  IF check_open # "ok" THEN Closed
  ELSE IF mode = "server" THEN Server(redis_execute_command(args, fault))
  ELSE Raise("NotImplementedError", 0, "", store, lastError)

----------------------------------------------------------------------------
(* Bounds and inputs                                                       *)

MaxList == 3      \* longest list kept under one key
MaxSet == 2       \* largest set kept under one key
MaxTicks == 3     \* clock ticks taken
TickMs == 500     \* milliseconds per clock tick
MaxDb == 1        \* highest logical database number selected
NumThreads == 2   \* worker threads sharing one session
IncrPerThread == 2  \* incr calls each worker thread makes

Dbs == 0..MaxDb
Threads == 1..NumThreads

EmptyStore == [k \in Keys |-> NoEntry]

\* a second Redlite object that has not been constructed yet
NoPeer == [phase |-> "uninit", url |-> <<>>, mode |-> "unset", handle |-> "None",
           redis |-> "None", live |-> FALSE, releases |-> 0, nullCloses |-> 0,
           closedHist |-> FALSE, engine |-> "none", store |-> EmptyStore]

OpenMsgs == {"", "unable to open database file"}

\* OracleRunner.__init__: passed = 0, failed = 0, errors = []; pc is the
\* runner's place ("idle" between tests), ran the number of _run_test calls
\* that returned, setups the setup operations done and results the outcome
\* of _compare for each operation of the test under way, verdict how the last
\* finished test ended
OracleRunner_init ==
  [pc |-> "idle", passed |-> 0, failed |-> 0, errors |-> <<>>, ran |-> 0,
   setups |-> 0, results |-> <<>>, verdict |-> ""]

----------------------------------------------------------------------------
(* Actions                                                                 *)

Init ==
  /\ phase = "uninit" /\ url = <<>> /\ mode = "unset"
  /\ handle = "None" /\ redis = "None"
  /\ live = FALSE /\ releases = 0 /\ nullCloses = 0 /\ closedHist = FALSE
  /\ engine = "none" /\ lastError = ""
  /\ store = EmptyStore
  /\ now = 0
  /\ last = NoCall
  /\ selected = 0
  /\ parked = [d \in Dbs |-> EmptyStore]
  /\ threads = [t \in Threads |-> [pc |-> "idle", done |-> 0]]
  /\ peer = NoPeer
  /\ runner = OracleRunner_init

\* the constructor opening ":memory:" through the path branch, as a database
\* named by the url
Construct_memory_as_path(u, libOk, openOk, msg, redisOk) ==
  LET r == Redlite_init(u, libOk, openOk, msg, redisOk)
  IN /\ phase = "uninit"
     /\ phase' = IF r.kind = "return" THEN "constructed" ELSE "failed"
     /\ url' = u /\ mode' = r.mode /\ handle' = r.handle /\ redis' = r.redis
     /\ live' = r.live /\ lastError' = r.lastError
     /\ engine' = IF r.engine = "memory" THEN "file" ELSE r.engine
     /\ last' = [NoCall EXCEPT !.op = "__init__", !.arg = PyStr(u),
                               !.kind = r.kind, !.err = r.err,
                               !.cls = IF r.kind # "raise" THEN ""
                                       ELSE IF r.err \in BuiltinErrors THEN r.err
                                       ELSE FfiRedliteError]
     /\ UNCHANGED <<releases, nullCloses, closedHist, store, now>>
     /\ UNCHANGED auxVars

\* Redlite(url): the constructor runs to its end or raises
Construct(u, libOk, openOk, msg, redisOk) ==
  LET r == Redlite_init(u, libOk, openOk, msg, redisOk)
  IN /\ phase = "uninit"
     /\ phase' = IF r.kind = "return" THEN "constructed" ELSE "failed"
     /\ url' = u /\ mode' = r.mode /\ handle' = r.handle /\ redis' = r.redis
     /\ live' = r.live /\ engine' = r.engine /\ lastError' = r.lastError
     /\ last' = [NoCall EXCEPT !.op = "__init__", !.arg = PyStr(u),
                               !.kind = r.kind, !.err = r.err,
                               !.cls = IF r.kind # "raise" THEN ""
                                       ELSE IF r.err \in BuiltinErrors THEN r.err
                                       ELSE FfiRedliteError]
     /\ UNCHANGED <<releases, nullCloses, closedHist, store, now>>
     /\ UNCHANGED auxVars

\* a call of close() under the name op, leaving the object in phase next
CloseCall(op, next) ==
  LET r == close
  IN /\ handle' = r.handle /\ redis' = r.redis
     /\ IF r.call = "none" THEN UNCHANGED <<live, releases, nullCloses>>
        ELSE IF live /\ r.arg \in {"H", "R"}
        THEN live' = FALSE /\ releases' = releases + 1 /\ UNCHANGED nullCloses
        ELSE nullCloses' = nullCloses + 1 /\ UNCHANGED <<live, releases>>
     /\ closedHist' = (closedHist \/ phase = "constructed")
     /\ phase' = next
     /\ last' = [NoCall EXCEPT !.op = op, !.kind = "return",
                               !.calls = IF r.call = "none" THEN 0 ELSE 1,
                               !.afterClose = closedHist, !.wasLive = live]
     /\ UNCHANGED <<url, mode, engine, lastError, store, now>>
     /\ UNCHANGED auxVars

\* db.close()
Close == phase = "constructed" /\ CloseCall("close", "constructed")

\* Redlite.__enter__
Enter ==
  /\ phase = "constructed"
  /\ last' = [NoCall EXCEPT !.op = "__enter__", !.kind = "return",
                            !.afterClose = closedHist, !.wasLive = live]
  /\ UNCHANGED <<sessVars, lastError, store, now>>
  /\ UNCHANGED auxVars

\* Redlite.__exit__, leaving the with block normally or through an exception
Exit == phase = "constructed" /\ CloseCall("__exit__", "constructed")

\* Redlite.__del__, which also runs on an object whose __init__ raised
Del ==
  \/ phase = "constructed" /\ CloseCall("__del__", "collected")
  \/ phase = "failed" /\ CloseCall("__del__", "failed_collected")

\* a command method that gives up the session's handle when it raises
SessionAfter_drops_handle(out) ==
  [url |-> url, mode |-> mode, redis |-> redis,
   handle |-> IF out.kind = "raise" THEN "None" ELSE handle]

\* the attributes of the session object after a command-surface method ran
\* with outcome out: the methods assign to none of self._url, self._mode,
\* self._handle, self._redis (only __init__ and close do), and the arrays
\* of _make_string_array / _make_bytes_array are locals of the call
SessionAfter(out) ==
  [url |-> url, mode |-> mode, redis |-> redis, handle |-> handle]

\* what a command-surface call on the constructed object leaves in the
\* session and its backend
Outcome(op, arg, out) ==
  /\ phase = "constructed"
  /\ last' = [op |-> op, arg |-> arg, kind |-> out.kind, val |-> out.val,
              err |-> out.err, calls |-> out.calls, bfail |-> out.bfail,
              afterClose |-> closedHist, wasLive |-> live, cls |-> out.cls]
  /\ store' = out.store
  /\ lastError' = out.lastError
  /\ url' = SessionAfter(out).url /\ mode' = SessionAfter(out).mode
  /\ handle' = SessionAfter(out).handle /\ redis' = SessionAfter(out).redis
  /\ UNCHANGED <<phase, live, releases, nullCloses, closedHist, engine, now>>

\* a command-surface call made by the program's main thread
Call(op, arg, out) ==
  /\ Outcome(op, arg, out)
  /\ UNCHANGED auxVars

ListLen(k) == IF Lookup(k).t = "list" THEN Len(Lookup(k).l) ELSE 0
SetSize(k) == IF Lookup(k).t = "set" THEN Cardinality(Lookup(k).m) ELSE 0

Get(k, fault) == Call("get", [key |-> k], get(k, fault))

Set(k, v, ex, px, nx, xx, fault) ==
  Call("set", [key |-> k, value |-> v, ex |-> ex, px |-> px, nx |-> nx, xx |-> xx],
       set(k, v, ex, px, nx, xx, fault))

Delete(ks, fault) == Call("delete", [keys |-> ks], delete(ks, fault))

Ttl(k, fault) == Call("ttl", [key |-> k], ttl(k, fault))

Pttl(k, fault) == Call("pttl", [key |-> k], pttl(k, fault))

Hset(k, mapping, kwargs, fault) ==
  Call("hset", [key |-> k, mapping |-> mapping, kwargs |-> kwargs],
       hset(k, mapping, kwargs, fault))

Hget(k, f, fault) == Call("hget", [key |-> k, field |-> f], hget(k, f, fault))

Lpush(k, vs, fault) ==
  /\ ListLen(k) + Len(vs) <= MaxList
  /\ Call("lpush", [key |-> k, values |-> vs], lpush(k, vs, fault))

Rpush(k, vs, fault) ==
  /\ ListLen(k) + Len(vs) <= MaxList
  /\ Call("rpush", [key |-> k, values |-> vs], rpush(k, vs, fault))

Lrange(k, start, stop, fault) ==
  Call("lrange", [key |-> k, start |-> start, stop |-> stop], lrange(k, start, stop, fault))

Sadd(k, ms, fault) ==
  /\ SetSize(k) + Len(ms) <= MaxSet
  /\ Call("sadd", [key |-> k, members |-> ms], sadd(k, ms, fault))

Smembers(k, fault) == Call("smembers", [key |-> k], smembers(k, fault))

Execute(args, fault) == Call("execute", [args |-> args], execute(args, fault))

\* time passes in the backend
Tick ==
  /\ now < MaxTicks * TickMs
  /\ now' = now + TickMs
  /\ last' = [NoCall EXCEPT !.op = "tick"]
  /\ UNCHANGED <<sessVars, lastError, store>>
  /\ UNCHANGED auxVars

----------------------------------------------------------------------------
(* Lifecycle specification: every connection string, every way of closing, *)
(* every command with one fixed argument list                              *)

V0 == PyStr(<<118>>)

NextLife ==
  \/ \E u \in Urls, libOk \in BOOLEAN, openOk \in BOOLEAN, msg \in OpenMsgs,
        redisOk \in BOOLEAN : Construct(u, libOk, openOk, msg, redisOk)
  \/ Enter
  \/ Close
  \/ Exit
  \/ Del
  \/ Get("k1", FALSE)
  \/ Set("k1", V0, NoOpt, NoOpt, FALSE, FALSE, FALSE)
  \/ Delete(<<"k1">>, FALSE)
  \/ Ttl("k1", FALSE)
  \/ Pttl("k1", FALSE)
  \/ Hset("k1", <<<<"f1", V0>>>>, <<>>, FALSE)
  \/ Hget("k1", "f1", FALSE)
  \/ Lpush("k1", <<V0>>, FALSE)
  \/ Rpush("k1", <<V0>>, FALSE)
  \/ Lrange("k1", 0, -1, FALSE)
  \/ Sadd("k1", <<V0>>, FALSE)
  \/ Smembers("k1", FALSE)
  \/ Execute(<<"VCARD", "k1">>, FALSE)

SpecLife == Init /\ [][NextLife]_vars

----------------------------------------------------------------------------
(* Lifecycle properties                                                    *)

CommandOps == {"get", "set", "delete", "ttl", "pttl", "hset", "hget", "lpush",
               "rpush", "lrange", "sadd", "smembers", "execute"}
CloseOps == {"close", "__exit__", "__del__"}
ClosedErrors == {"Database is closed", "Connection is closed"}

\* C1: once close() (directly, through __exit__, or repeated) has been
\* called on a session, every command - the raw-command path included -
\* raises a "closed" error, makes no backend call and returns no value, in
\* embedded and in server mode.
C1_ClosedSessionRejectsCommands ==
  (last.op \in CommandOps /\ last.afterClose) =>
     /\ last.kind = "raise"
     /\ last.err \in ClosedErrors
     /\ last.err = (IF mode = "embedded" THEN "Database is closed"
                                         ELSE "Connection is closed")
     /\ last.calls = 0
     /\ last.val = PyNone

C1_Witness ==
  /\ last.op = "execute" /\ last.afterClose /\ last.kind = "raise"
  /\ mode = "server" /\ releases = 1

\* C2: on a session that was opened, the first of any sequence of close(),
\* __exit__ and __del__ calls releases the backend handle exactly once;
\* every later one raises nothing and makes no backend call.
C2_CloseIdempotent ==
  phase \in {"constructed", "collected"} =>
     /\ releases <= 1
     /\ nullCloses = 0
     /\ closedHist => (~live /\ releases = 1)
     /\ last.op \in CloseOps =>
          /\ last.kind = "return"
          /\ last.calls = (IF last.afterClose THEN 0 ELSE 1)
          /\ last.wasLive = ~last.afterClose

C2_Witness ==
  /\ last.op = "__del__" /\ last.afterClose /\ last.calls = 0
  /\ releases = 1 /\ mode = "embedded"

\* the session holds a backend binding that commands can use
UsableBinding ==
  live /\ ((mode = "embedded" /\ handle = "H") \/ (mode = "server" /\ redis = "R"))

\* C3: in every state of a session object the mode is embedded or server,
\* an embedded session holds no redis client and a server session no native
\* handle, and commands pass the open check exactly when the binding held
\* is a usable backend handle.
C3_NoPartiallyOpenState ==
  phase \in {"constructed", "failed"} =>
     /\ mode \in {"embedded", "server"}
     /\ mode = "embedded" => redis = "None"
     /\ mode = "server" => handle = "None"
     /\ (check_open = "ok") <=> UsableBinding

\* C4: when the native open returns a null handle the constructor raises
\* (the pending backend message, else the generic one), and afterwards no
\* command and no backend close is issued for that object, the destructor
\* included.
C4_FailedOpenNeverOpens ==
  phase \in {"failed", "failed_collected"} =>
     /\ ~live /\ releases = 0 /\ nullCloses = 0
     /\ last.calls = 0
     /\ last.op = "__init__" => last.kind = "raise"

\* the connection string begins with one of the two URL schemes
IsServerUrl(u) ==
  \E n \in 0..Len(u) :
     SubSeq(u, 1, n) \in { <<"r", "e", "d", "i", "s", ":", "/", "/">>,
                           <<"r", "e", "d", "i", "s", "s", ":", "/", "/">> }

C5_ModeMatchesUrl ==
  phase # "uninit" =>
     /\ Redlite_mode = (IF IsServerUrl(url) THEN "server" ELSE "embedded")
     /\ (phase = "constructed" /\ ~IsServerUrl(url)) =>
           engine = (IF url = <<":", "m", "e", "m", "o", "r", "y", ":">>
                     THEN "memory" ELSE "file")
     /\ (phase = "constructed" /\ IsServerUrl(url)) => engine = "network"

\* C5: the mode is server exactly for strings starting with redis:// or
\* rediss://, embedded for every other string (":memory:" opening the
\* in-memory engine, anything else a persistent engine at that path), and
\* no operation, close included, changes the mode afterwards.
C5_ModeSelection ==
  /\ []C5_ModeMatchesUrl
  /\ [][phase # "uninit" => (mode' = mode /\ url' = url /\ engine' = engine)]_vars

C5_Witness ==
  /\ phase = "constructed" /\ closedHist /\ mode = "server"
  /\ url = <<"r", "e", "d", "i", "s", "s", ":", "/", "/", "h">>

----------------------------------------------------------------------------
(* Codec specification: values of every supported shape written and read   *)
(* back through both backends, with backend failures                       *)

HostValues ==
  { PyStr(<<>>),                 \* ""
    PyStr(<<65, 233>>),          \* "A" and e-acute, a two-byte sequence
    PyStr(<<0, 8364>>),          \* NUL and the euro sign, a three-byte sequence
    PyBytes(<<>>),               \* b""
    PyBytes(<<0, 255>>),         \* b"\x00\xff"
    PyInt(-12),
    PyFloat(15) }                \* 1.5

CodecUrls == {MemoryUrl, RedisScheme \o <<"h">>}

NextCodec ==
  \/ \E u \in CodecUrls : Construct(u, TRUE, TRUE, "", TRUE)
  \/ \E v \in HostValues, fault \in BOOLEAN :
        Set("k1", v, NoOpt, NoOpt, FALSE, FALSE, fault)
  \/ \E fault \in BOOLEAN : Get("k1", fault)
  \/ \E v \in HostValues, fault \in BOOLEAN : Hset("k1", <<<<"f1", v>>>>, <<>>, fault)
  \/ \E fault \in BOOLEAN : Hget("k1", "f1", fault)
  \/ \E v \in HostValues, fault \in BOOLEAN : Rpush("k1", <<v>>, fault)
  \/ \E fault \in BOOLEAN : Lrange("k1", 0, -1, fault)
  \/ \E v \in HostValues, fault \in BOOLEAN : Sadd("k1", <<v>>, fault)
  \/ \E fault \in BOOLEAN : Smembers("k1", fault)
  \/ \E fault \in BOOLEAN : Delete(<<"k1">>, fault)

SpecCodec == Init /\ [][NextCodec]_vars

\* the canonical byte string of each value, written out by hand
CanonicalBytes(v) ==
  CASE v = PyStr(<<>>) -> <<>>
    [] v = PyStr(<<65, 233>>) -> <<65, 195, 169>>
    [] v = PyStr(<<0, 8364>>) -> <<0, 226, 130, 172>>
    [] v = PyBytes(<<>>) -> <<>>
    [] v = PyBytes(<<0, 255>>) -> <<0, 255>>
    [] v = PyInt(-12) -> <<45, 49, 50>>
    [] v = PyFloat(15) -> <<49, 46, 53>>

\* what reading back the value just written gives, for the four write
\* commands: the value GET / HGET return, the last element LRANGE returns,
\* the members SMEMBERS returns
Written == last.kind = "return" /\ last.op \in {"set", "hset", "rpush", "sadd"}

WrittenValue ==
  CASE last.op = "set" -> last.arg.value
    [] last.op = "hset" -> last.arg.mapping[1][2]
    [] last.op = "rpush" -> last.arg.values[1]
    [] last.op = "sadd" -> last.arg.members[1]

ReadBack(expected) ==
  CASE last.op = "set" -> get(last.arg.key, FALSE).val = expected
    [] last.op = "hset" -> hget(last.arg.key, last.arg.mapping[1][1], FALSE).val = expected
    [] last.op = "rpush" ->
         LET l == lrange(last.arg.key, 0, -1, FALSE).val.l
         IN Len(l) > 0 /\ l[Len(l)] = expected
    [] last.op = "sadd" -> expected \in smembers(last.arg.key, FALSE).val.s

\* every element of the list or set read back satisfies ok
ElementsAre(ok(_)) ==
  /\ last.op = "rpush" =>
       \A x \in Range(lrange(last.arg.key, 0, -1, FALSE).val.l) : ok(x)
  /\ last.op = "sadd" =>
       \A x \in smembers(last.arg.key, FALSE).val.s : ok(x)

IsBytes(x) == x.t = "bytes"
IsBytesOrNone(x) == x.t \in {"bytes", "None"}

C7_NoFailureMasked ==
  (last.op \in CommandOps /\ last.bfail # "") =>
     /\ last.kind = "raise"
     /\ last.err = last.bfail

----------------------------------------------------------------------------
(* Expiry specification: SET with its expiry options, TTL and PTTL, with   *)
(* time passing and backend failures                                       *)

ExValues == {0, 1, 2}            \* ex=, in seconds
PxValues == {1, 500, 1000, 1500} \* px=, in milliseconds

NextTtl ==
  \/ \E u \in CodecUrls : Construct(u, TRUE, TRUE, "", TRUE)
  \/ \E nx \in BOOLEAN, xx \in BOOLEAN, fault \in BOOLEAN :
        /\ ~(nx /\ xx)
        /\ \/ Set("k1", V0, NoOpt, NoOpt, nx, xx, fault)
           \/ \E ex \in ExValues : Set("k1", V0, ex, NoOpt, nx, xx, fault)
           \/ \E px \in PxValues : Set("k1", V0, NoOpt, px, nx, xx, fault)
  \/ \E fault \in BOOLEAN : Get("k1", fault)
  \/ \E fault \in BOOLEAN : Ttl("k1", fault)
  \/ \E fault \in BOOLEAN : Pttl("k1", fault)
  \/ \E fault \in BOOLEAN : Delete(<<"k1">>, fault)
  \/ Tick

SpecTtl == Init /\ [][NextTtl]_vars

\* C8: ttl and pttl return -1 for a key that exists without expiry and -2
\* for a key that does not exist, unchanged and without raising; a key with
\* an expiry gives its remaining time; a backend failure is raised and
\* never shows up as one of the sentinels.
C8_TtlSentinels ==
  last.op \in {"ttl", "pttl"} =>
     LET e == Lookup(last.arg.key)
     IN /\ last.bfail = "" =>
             /\ last.kind = "return"
             /\ e.t = "none" => last.val = PyInt(-2)
             /\ (e.t # "none" /\ e.exp = NoExpiry) => last.val = PyInt(-1)
             /\ (e.t # "none" /\ e.exp # NoExpiry) =>
                   (last.val.t = "int" /\ last.val.i >= 0)
        /\ last.bfail # "" =>
             /\ last.kind = "raise"
             /\ last.err = last.bfail

C8_Witness ==
  /\ last.op = "ttl" /\ last.kind = "return" /\ last.val = PyInt(-1)
  /\ mode = "embedded" /\ lastError # "" /\ now > 0

\* a SET that returned, given neither nx nor xx
PlainSet ==
  /\ last.op = "set" /\ last.kind = "return"
  /\ ~last.arg.nx /\ ~last.arg.xx

\* C9: after set(key, value, ex=0) the key does not exist and ttl(key) is
\* -2; after set(key, value) without expiry option the key exists and
\* ttl(key) is -1.
C9_ExZeroExpiresImmediately ==
  /\ (PlainSet /\ last.arg.ex = 0 /\ last.arg.px = NoOpt) =>
        /\ Lookup(last.arg.key).t = "none"
        /\ ttl(last.arg.key, FALSE).val = PyInt(-2)
  /\ (PlainSet /\ last.arg.ex = NoOpt /\ last.arg.px = NoOpt) =>
        /\ Lookup(last.arg.key).t # "none"
        /\ ttl(last.arg.key, FALSE).val = PyInt(-1)

\* C10: right after set(key, value, px=px) with px > 0, ttl(key) and
\* pttl(key) are not -1 and pttl(key) is at most px.
C10_PxSetsExpiry ==
  (PlainSet /\ last.arg.ex = NoOpt /\ last.arg.px > 0) =>
     /\ ttl(last.arg.key, FALSE).val # PyInt(-1)
     /\ pttl(last.arg.key, FALSE).val # PyInt(-1)
     /\ pttl(last.arg.key, FALSE).val.i <= last.arg.px

----------------------------------------------------------------------------
(* Conditional writes: SET with nx / xx and RENAMENX                       *)

NoSuchKey == "ERR no such key"

\* int redlite_renamenx(db, key, newkey): 1 renamed, 0 newkey exists, -1 failure
redlite_renamenx(key, newkey, fault) ==
  LET src == Lookup(key)
      dst == Lookup(newkey)
  IN IF fault THEN Reply(-1, EngineFailure, store)
     ELSE IF src.t = "none" THEN Reply(-1, NoSuchKey, store)
     ELSE IF dst.t # "none" THEN Reply(0, "", store)
     ELSE Reply(1, "", [store EXCEPT ![newkey] = src, ![key] = NoEntry])

redis_renamenx(src, dst, fault) ==
  LET r == redlite_renamenx(src, dst, fault) IN FromServer(r, PyBool(r.ret = 1))

\* renamenx() reporting success the way rename() does, on a 0 result
renamenx_as_rename(src, dst, fault) ==
  IF check_open # "ok" THEN Closed
  ELSE IF mode = "server" THEN Server(redis_renamenx(src, dst, fault))
  ELSE Native(LET r == redlite_renamenx(src, dst, fault)
              IN CheckThenReturn(r.ret < 0, PyBool(r.ret = 0), r.bfail, r.store, r.lastError))

\* Redlite.renamenx
renamenx(src, dst, fault) ==
  IF check_open # "ok" THEN Closed
  ELSE IF mode = "server" THEN Server(redis_renamenx(src, dst, fault))
  ELSE Native(LET r == redlite_renamenx(src, dst, fault)
              IN CheckThenReturn(r.ret < 0, PyBool(r.ret = 1), r.bfail, r.store, r.lastError))

Renamenx(src, dst, fault) ==
  Call("renamenx", [src |-> src, dst |-> dst], renamenx(src, dst, fault))

V1 == PyStr(<<119>>)

NextCond ==
  \/ \E u \in CodecUrls : Construct(u, TRUE, TRUE, "", TRUE)
  \/ \E k \in Keys, v \in {V0, V1}, nx \in BOOLEAN, xx \in BOOLEAN :
        /\ ~(nx /\ xx)
        /\ Set(k, v, NoOpt, NoOpt, nx, xx, FALSE)
  \/ \E k \in Keys : Get(k, FALSE)
  \/ \E k \in Keys : Delete(<<k>>, FALSE)
  \/ \E s \in Keys, d \in Keys, fault \in BOOLEAN : Renamenx(s, d, fault)

SpecCond == Init /\ [][NextCond]_vars

\* C11: in both modes a returned set(k, v, nx=True) on an existing key
\* leaves the stored value unchanged, a returned set(k, v, xx=True) on a
\* missing key creates nothing, and a set without either flag stores v.
C11_SetHonoursNxXx ==
  [][\A k \in Keys :
       (last'.op = "set" /\ last'.kind = "return" /\ last'.arg.key = k) =>
          /\ (last'.arg.nx /\ Lookup(k).t # "none") => store'[k] = store[k]
          /\ (last'.arg.xx /\ Lookup(k).t = "none") => Lookup(k)'.t = "none"
          /\ (~last'.arg.nx /\ ~last'.arg.xx) =>
                Lookup(k)' = StrEntry(last'.arg.value.s, NoExpiry)]_vars

\* C12: renamenx(src, dst) on an existing src, the backend not failing: if
\* dst exists it returns False without raising and both keys keep their
\* entries; if dst does not exist it returns True, dst holds what src held
\* and src is gone.
C12_Renamenx ==
  [][\A s \in Keys, d \in Keys :
       (/\ last'.op = "renamenx" /\ last'.arg = [src |-> s, dst |-> d]
        /\ last'.bfail = "" /\ Lookup(s).t # "none") =>
          /\ last'.kind = "return"
          /\ IF Lookup(d).t # "none"
             THEN /\ last'.val = PyBool(FALSE)
                  /\ store'[s] = store[s] /\ store'[d] = store[d]
             ELSE /\ last'.val = PyBool(TRUE)
                  /\ Lookup(d)' = Lookup(s)
                  /\ Lookup(s)'.t = "none"]_vars

C12_Witness ==
  /\ last.op = "renamenx" /\ last.arg = [src |-> "k1", dst |-> "k2"]
  /\ last.kind = "return" /\ last.val = PyBool(FALSE)
  /\ mode = "embedded"
  /\ Lookup("k1").t = "string" /\ Lookup("k2").t = "string"
  /\ Lookup("k1").v # Lookup("k2").v

----------------------------------------------------------------------------
(* Sorted sets                                                             *)

ZSetEntry(z, exp) == [t |-> "zset", z |-> z, exp |-> exp]

\* struct RedliteZMember { double score; const uint8_t *member; size_t member_len; }
RedliteZMember(score, member, member_len) ==
  [score |-> score, member |-> member, member_len |-> member_len]

\* a C double: the number tenths/10, or not-a-number
Double(n) == [nan |-> FALSE, tenths |-> n]
NaN == [nan |-> TRUE, tenths |-> 0]

\* math.isnan
isnan(x) == x.nan

\* int64_t redlite_zadd(db, key, members, members_len): the number of new members
redlite_zadd(key, members, members_len, fault) ==
  LET e == Lookup(key)
      old == IF e.t = "zset" THEN e.z ELSE <<>>
      name(i) == SubSeq(members[i].member, 1, members[i].member_len)
      given == {name(i) : i \in 1..members_len}
      lastOf(m) == CHOOSE i \in 1..members_len :
                     name(i) = m /\ \A j \in (i + 1)..members_len : name(j) # m
      new == [m \in (DOMAIN old) \cup given |->
                IF m \in given THEN members[lastOf(m)].score ELSE old[m]]
  IN IF fault THEN Reply(-1, EngineFailure, store)
     ELSE IF e.t \notin {"none", "zset"} THEN Reply(-1, WrongType, store)
     ELSE Reply(Cardinality(given \ DOMAIN old), "",
                [store EXCEPT ![key] = ZSetEntry(new, ExpOf(e))])

\* double redlite_zscore(db, key, member, member_len): NaN when there is none
redlite_zscore(key, member, member_len, fault) ==
  LET e == Lookup(key)
      m == SubSeq(member, 1, member_len)
  IN IF fault THEN Reply(NaN, EngineFailure, store)
     ELSE IF e.t = "zset" /\ m \in DOMAIN e.z THEN Reply(Double(e.z[m]), "", store)
     ELSE Reply(NaN, "", store)

\* float(score), in tenths
float(score) == IF score.t = "int" THEN score.i * 10 ELSE score.tenths

redis_zadd(key, items, fault) ==
  LET r == redlite_zadd(key,
                        [i \in 1..Len(items) |->
                           LET m == redis_encode(items[i][1])
                           IN RedliteZMember(float(items[i][2]), m, Len(m))],
                        Len(items), fault)
  IN FromServer(r, PyInt(r.ret))

redis_zscore(key, member, fault) ==
  LET m == redis_encode(member)
      r == redlite_zscore(key, m, Len(m), fault)
  IN FromServer(r, IF isnan(r.ret) THEN PyNone ELSE PyFloat(r.ret.tenths))

\* Redlite.zadd
zadd(key, mapping, kwargs, fault) ==
  LET items == DictUpdate(DictUpdate(<<>>, mapping), kwargs)
  IN IF check_open # "ok" THEN Closed
     ELSE IF items = <<>> THEN Ret(PyInt(0), 0, "", store, lastError)
     ELSE IF mode = "server" THEN Server(redis_zadd(key, items, fault))
     ELSE Native(LET members_array ==
                       [i \in 1..Len(items) |->
                          LET member_bytes == encode_value(items[i][1])
                          IN RedliteZMember(float(items[i][2]), member_bytes,
                                            Len(member_bytes))]
                     r == redlite_zadd(key, members_array, Len(items), fault)
                 IN CheckThenReturn(r.ret < 0, PyInt(r.ret), r.bfail, r.store, r.lastError))

\* Redlite.zscore
zscore(key, member, fault) ==
  IF check_open # "ok" THEN Closed
  ELSE IF mode = "server" THEN Server(redis_zscore(key, member, fault))
  ELSE Native(LET member_bytes == encode_value(member)
                  r == redlite_zscore(key, member_bytes, Len(member_bytes), fault)
              IN Ret(IF isnan(r.ret) THEN PyNone ELSE PyFloat(r.ret.tenths), 1, r.bfail,
                     r.store, r.lastError))

ZCard(k) == IF Lookup(k).t = "zset" THEN Cardinality(DOMAIN Lookup(k).z) ELSE 0

Zadd(k, mapping, kwargs, fault) ==
  /\ ZCard(k) + Len(mapping) + Len(kwargs) <= MaxSet
  /\ Call("zadd", [key |-> k, mapping |-> mapping, kwargs |-> kwargs],
          zadd(k, mapping, kwargs, fault))

Zscore(k, m, fault) == Call("zscore", [key |-> k, member |-> m], zscore(k, m, fault))

----------------------------------------------------------------------------
(* Collection specification: hashes, sets, sorted sets and lists under one *)
(* key, written with one or two elements per call                          *)

B0 == PyBytes(<<118>>)     \* b"v", the same element as the text "v"

NextColl ==
  \/ \E u \in CodecUrls : Construct(u, TRUE, TRUE, "", TRUE)
  \/ \E mapping \in {<<>>, <<<<"f1", V0>>>>, <<<<"f1", V1>>, <<"f2", V0>>>>},
        kwargs \in {<<>>, <<<<"f1", V1>>>>, <<<<"f2", V1>>>>}, fault \in BOOLEAN :
        Hset("k1", mapping, kwargs, fault)
  \/ \E f \in Fields : Hget("k1", f, FALSE)
  \/ \E ms \in {<<V0>>, <<V1>>, <<V0, V0>>, <<V0, V1>>, <<V0, B0>>}, fault \in BOOLEAN :
        Sadd("k1", ms, fault)
  \/ Smembers("k1", FALSE)
  \/ \E mapping \in {<<>>, <<<<V0, PyFloat(10)>>>>, <<<<V1, PyInt(2)>>>>,
                     <<<<V0, PyFloat(15)>>, <<B0, PyFloat(50)>>>>,
                     <<<<V0, PyFloat(50)>>, <<V1, PyFloat(10)>>>>},
        kwargs \in {<<>>, <<<<V0, PyFloat(25)>>>>}, fault \in BOOLEAN :
        Zadd("k1", mapping, kwargs, fault)
  \/ \E m \in {V0, V1} : Zscore("k1", m, FALSE)
  \/ \E vs \in {<<>>, <<V0>>, <<V1>>, <<V0, V1>>, <<V1, V1>>}, fault \in BOOLEAN :
        Lpush("k1", vs, fault)
  \/ \E vs \in {<<>>, <<V0>>, <<V1>>, <<V0, V1>>, <<V1, V1>>}, fault \in BOOLEAN :
        Rpush("k1", vs, fault)
  \/ Lrange("k1", 0, -1, FALSE)
  \/ Delete(<<"k1">>, FALSE)

SpecColl == Init /\ [][NextColl]_vars

\* the bytes an ASCII text or a byte string stands for
Plain(v) == IF v.t = "bytes" THEN v.b ELSE v.s

Names(pairs) == {pairs[i][1] : i \in 1..Len(pairs)}

\* the value the dict built from mapping and then kwargs holds under name a
FinalValue(mapping, kwargs, a) ==
  LET pairs == IF a \in Names(kwargs) THEN kwargs ELSE mapping
  IN pairs[CHOOSE i \in 1..Len(pairs) :
             pairs[i][1] = a /\ \A j \in (i + 1)..Len(pairs) : pairs[j][1] # a][2]

\* the elements a call of op names, as the backend identifies them
Given(op, arg) ==
  CASE op = "hset" -> Names(arg.mapping) \cup Names(arg.kwargs)
    [] op = "sadd" -> {Plain(arg.members[i]) : i \in 1..Len(arg.members)}
    [] op = "zadd" -> {Plain(a) : a \in Names(arg.mapping) \cup Names(arg.kwargs)}

\* the elements entry e already holds
Present(op, e) ==
  CASE op = "hset" -> IF e.t = "hash" THEN DOMAIN e.h ELSE {}
    [] op = "sadd" -> IF e.t = "set" THEN e.m ELSE {}
    [] op = "zadd" -> IF e.t = "zset" THEN DOMAIN e.z ELSE {}

TypeFits(op, e) ==
  e.t \in {"none", CASE op = "hset" -> "hash" [] op = "sadd" -> "set" [] op = "zadd" -> "zset"}

\* the entry under k holds what the last call wrote
Updated(k) ==
  LET e == Lookup(k)
      a == last.arg
  IN CASE last.op = "hset" ->
            \A f \in Given("hset", a) :
               e.h[f] = Plain(FinalValue(a.mapping, a.kwargs, f))
       [] last.op = "sadd" -> Given("sadd", a) \subseteq e.m
       [] last.op = "zadd" ->
            \A n \in Names(a.mapping) \cup Names(a.kwargs) :
               (\A o \in Names(a.mapping) \cup Names(a.kwargs) : Plain(o) = Plain(n) => o = n)
                  => e.z[Plain(n)] = float(FinalValue(a.mapping, a.kwargs, n))

\* C13: an HSET, SADD or ZADD the backend carries out returns the number of
\* elements that were not in the key before the call - 0 when all were
\* present, an element named twice in the call counted once - and the key
\* holds the values or scores the call gave.
C13_ReturnsNewlyAdded ==
  [][\A k \in Keys :
       (/\ last'.op \in {"hset", "sadd", "zadd"} /\ last'.arg.key = k
        /\ last'.bfail = "" /\ TypeFits(last'.op, Lookup(k))) =>
          /\ last'.kind = "return"
          /\ last'.val = PyInt(Cardinality(Given(last'.op, last'.arg)
                                             \ Present(last'.op, Lookup(k))))
          /\ Updated(k)']_vars

C13_Witness ==
  /\ last.op = "hset" /\ last.kind = "return" /\ last.val = PyInt(0)
  /\ last.calls >= 1 /\ mode = "embedded"
  /\ last.arg.mapping = <<<<"f1", V0>>>> /\ last.arg.kwargs = <<<<"f1", V1>>>>
  /\ Lookup("k1").h["f1"] = <<119>>

\* C14: lpush(key, v1, ..., vn) with n >= 1 on a key holding the list L (or
\* nothing) leaves [vn, ..., v1] followed by L, rpush leaves L followed by
\* [v1, ..., vn], and both return |L| + n.
C14_PushOrderAndLength ==
  [][\A k \in Keys :
       (/\ last'.op \in {"lpush", "rpush"} /\ last'.arg.key = k
        /\ Len(last'.arg.values) >= 1
        /\ last'.bfail = "" /\ Lookup(k).t \in {"none", "list"}) =>
          LET L == IF Lookup(k).t = "list" THEN Lookup(k).l ELSE <<>>
              vs == [i \in 1..Len(last'.arg.values) |-> Plain(last'.arg.values[i])]
          IN /\ last'.kind = "return"
             /\ last'.val = PyInt(Len(L) + Len(vs))
             /\ Lookup(k)'.t = "list"
             /\ Lookup(k)'.l = IF last'.op = "lpush" THEN Reverse(vs) \o L
                                                     ELSE L \o vs]_vars

C14_Witness ==
  /\ last.op = "lpush" /\ last.kind = "return" /\ mode = "embedded"
  /\ last.arg.values = <<V0, V1>>
  /\ last.val = PyInt(3)
  /\ Lookup("k1").l = <<<<119>>, <<118>>, <<119>>>>

----------------------------------------------------------------------------
(* Counters: INCR, DECR, INCRBY, DECRBY                                    *)

\* int64_t is modelled eight bits wide; IntMin is the value the code writes
\* as -9223372036854775808
IntMin == -128
IntMax == 127

NotAnInteger == "ERR value is not an integer or out of range"
WouldOverflow == "ERR increment or decrement would overflow"

IsDigits(b) == Len(b) >= 1 /\ \A i \in 1..Len(b) : b[i] \in 48..57

\* the stored bytes are the decimal text of an integer
IsInt(b) == IsDigits(b) \/ (Len(b) >= 2 /\ b[1] = 45 /\ IsDigits(Tail(b)))

RECURSIVE DigitsValue(_)
DigitsValue(b) ==
  IF b = <<>> THEN 0
  ELSE DigitsValue(SubSeq(b, 1, Len(b) - 1)) * 10 + (b[Len(b)] - 48)

ParseInt(b) == IF b[1] = 45 THEN -DigitsValue(Tail(b)) ELSE DigitsValue(b)

\* int64_t redlite_incrby(db, key, increment): the new value, INT64_MIN on failure
redlite_incrby(key, increment, fault) ==
  LET e == Lookup(key)
      cur == IF e.t = "string" /\ IsInt(e.v) THEN ParseInt(e.v) ELSE 0
      new == cur + increment
  IN IF fault THEN Reply(IntMin, EngineFailure, store)
     ELSE IF e.t \notin {"none", "string"} THEN Reply(IntMin, WrongType, store)
     ELSE IF e.t = "string" /\ ~IsInt(e.v) THEN Reply(IntMin, NotAnInteger, store)
     ELSE IF new < IntMin \/ new > IntMax THEN Reply(IntMin, WouldOverflow, store)
     ELSE Reply(new, "", [store EXCEPT ![key] = StrEntry(StrInt(new), ExpOf(e))])

redlite_incr(key, fault) == redlite_incrby(key, 1, fault)
redlite_decr(key, fault) == redlite_incrby(key, -1, fault)
redlite_decrby(key, decrement, fault) == redlite_incrby(key, -decrement, fault)

redis_incrby(key, amount, fault) ==
  LET r == redlite_incrby(key, amount, fault) IN FromServer(r, PyInt(r.ret))

redis_decrby(key, amount, fault) ==
  LET r == redlite_decrby(key, amount, fault) IN FromServer(r, PyInt(r.ret))

\* incr() returning the native result without looking for the failure value
incr_unchecked(key, fault) ==
  IF check_open # "ok" THEN Closed
  ELSE IF mode = "server" THEN Server(redis_incrby(key, 1, fault))
  ELSE Native(LET r == redlite_incr(key, fault)
              IN Ret(PyInt(r.ret), 1, r.bfail, r.store, r.lastError))

\* Redlite.incr
incr(key, fault) ==
  IF check_open # "ok" THEN Closed
  ELSE IF mode = "server" THEN Server(redis_incrby(key, 1, fault))
  ELSE Native(LET r == redlite_incr(key, fault)
              IN CheckThenReturn(r.ret = IntMin, PyInt(r.ret), r.bfail, r.store,
                                 r.lastError))

\* Redlite.decr
decr(key, fault) ==
  IF check_open # "ok" THEN Closed
  ELSE IF mode = "server" THEN Server(redis_decrby(key, 1, fault))
  ELSE Native(LET r == redlite_decr(key, fault)
              IN CheckThenReturn(r.ret = IntMin, PyInt(r.ret), r.bfail, r.store,
                                 r.lastError))

\* Redlite.incrby
incrby(key, amount, fault) ==
  IF check_open # "ok" THEN Closed
  ELSE IF mode = "server" THEN Server(redis_incrby(key, amount, fault))
  ELSE Native(LET r == redlite_incrby(key, amount, fault)
              IN CheckThenReturn(r.ret = IntMin, PyInt(r.ret), r.bfail, r.store,
                                 r.lastError))

\* Redlite.decrby
decrby(key, amount, fault) ==
  IF check_open # "ok" THEN Closed
  ELSE IF mode = "server" THEN Server(redis_decrby(key, amount, fault))
  ELSE Native(LET r == redlite_decrby(key, amount, fault)
              IN CheckThenReturn(r.ret = IntMin, PyInt(r.ret), r.bfail, r.store,
                                 r.lastError))

MaxCount == 3     \* largest magnitude a counter reaches

\* the counter under k, a missing or non-numeric key read as 0
CounterOf(k) ==
  IF Lookup(k).t = "string" /\ IsInt(Lookup(k).v) THEN ParseInt(Lookup(k).v) ELSE 0

InCount(n) == -MaxCount <= n /\ n <= MaxCount

Incr(k, fault) ==
  /\ InCount(CounterOf(k) + 1)
  /\ Call("incr", [key |-> k], incr(k, fault))

Decr(k, fault) ==
  /\ InCount(CounterOf(k) - 1)
  /\ Call("decr", [key |-> k], decr(k, fault))

Incrby(k, amount, fault) ==
  /\ InCount(CounterOf(k) + amount)
  /\ Call("incrby", [key |-> k, amount |-> amount], incrby(k, amount, fault))

Decrby(k, amount, fault) ==
  /\ InCount(CounterOf(k) - amount)
  /\ Call("decrby", [key |-> k, amount |-> amount], decrby(k, amount, fault))

Amounts == {-1, 2}
CounterTexts == {V0, PyInt(2), PyStr(<<45, 49>>)}    \* "v", 2, "-1"

NextIncr ==
  \/ \E u \in CodecUrls : Construct(u, TRUE, TRUE, "", TRUE)
  \/ \E v \in CounterTexts : Set("k1", v, NoOpt, NoOpt, FALSE, FALSE, FALSE)
  \/ \E fault \in BOOLEAN : Get("k1", fault)
  \/ Delete(<<"k1">>, FALSE)
  \/ \E fault \in BOOLEAN : Incr("k1", fault)
  \/ \E fault \in BOOLEAN : Decr("k1", fault)
  \/ \E a \in Amounts, fault \in BOOLEAN : Incrby("k1", a, fault)
  \/ \E a \in Amounts, fault \in BOOLEAN : Decrby("k1", a, fault)

SpecIncr == Init /\ [][NextIncr]_vars

IncrOps == {"incr", "decr", "incrby", "decrby"}

\* the amount a counter call adds
Delta(op, arg) ==
  CASE op = "incr" -> 1
    [] op = "decr" -> -1
    [] op = "incrby" -> arg.amount
    [] op = "decrby" -> -arg.amount

\* C15: incr, decr, incrby and decrby on a missing key act as on a stored 0
\* (on an integer n they return n plus the amount and store it, so n incr
\* calls on a fresh key return 1..n); on a stored value that is not an
\* integer they raise the backend's "not an integer" error and leave the
\* stored value as it was.
C15_CountersFromZero ==
  [][\A k \in Keys :
       (last'.op \in IncrOps /\ last'.arg.key = k /\ last'.bfail # EngineFailure) =>
          LET e == Lookup(k)
              d == Delta(last'.op, last'.arg)
          IN /\ e.t = "none" =>
                  /\ last'.kind = "return" /\ last'.val = PyInt(d)
                  /\ Lookup(k)'.v = StrInt(d)
             /\ (e.t = "string" /\ IsInt(e.v)) =>
                  /\ last'.kind = "return" /\ last'.val = PyInt(ParseInt(e.v) + d)
                  /\ Lookup(k)'.v = StrInt(ParseInt(e.v) + d)
             /\ (e.t = "string" /\ ~IsInt(e.v)) =>
                  /\ last'.kind = "raise" /\ last'.err = NotAnInteger
                  /\ store'[k] = store[k]]_vars

C15_Witness ==
  /\ last.op = "incr" /\ last.kind = "raise" /\ last.err = NotAnInteger
  /\ mode = "embedded"
  /\ Lookup("k1") = StrEntry(<<118>>, NoExpiry)

----------------------------------------------------------------------------
(* Error types                                                             *)

\* the classes an exception of class c is an instance of: each of the three
\* error classes derives from Exception directly
Mro(c) == IF c = "" THEN {} ELSE {c, "Exception"}

\* isinstance(exception of class c, target), what "except target" tests
IsInstance(c, target) == target \in Mro(c)

\* C16: the error a closed session raises, and every error surfaced from
\* the backend, is an instance of the RedliteError class the redlite
\* package exports.
C16_ErrorsAreExportedRedliteError ==
  (last.kind = "raise" /\ (last.err \in ClosedErrors \/ last.bfail # "")) =>
     IsInstance(last.cls, PackageRedliteError)

\* C17: on an open session the raw-command path makes one backend call with
\* the command name and arguments as given and returns the backend's reply,
\* in embedded and in server mode.
C17_RawCommandForwarded ==
  (last.op = "execute" /\ ~last.afterClose /\ last.wasLive) =>
     /\ last.kind = "return"
     /\ last.calls = 1
     /\ last.val = [t |-> "reply", to |-> last.arg.args]

----------------------------------------------------------------------------
(* Concurrency: worker threads calling incr on one shared session          *)

\* incr() calling the native decrement
incr_calls_decr(key, fault) ==
  IF check_open # "ok" THEN Closed
  ELSE IF mode = "server" THEN Server(redis_incrby(key, 1, fault))
  ELSE Native(LET r == redlite_decr(key, fault)
              IN CheckThenReturn(r.ret = IntMin, PyInt(r.ret), r.bfail, r.store,
                                 r.lastError))

\* db.incr as a worker thread runs it: this definition stands for Redlite.incr
worker_incr(key, fault) == incr(key, fault)

\* thread t enters db.incr("k1"): the Python part up to the backend call,
\* after which another thread may run
WorkerEnter(t) ==
  /\ phase = "constructed"
  /\ threads[t].pc = "idle" /\ threads[t].done < IncrPerThread
  /\ threads' = [threads EXCEPT ![t].pc = IF check_open = "ok" THEN "calling" ELSE "raised"]
  /\ last' = [NoCall EXCEPT !.op = "enter incr", !.arg = [key |-> "k1", thread |-> t],
                            !.afterClose = closedHist, !.wasLive = live]
  /\ UNCHANGED <<sessVars, lastError, store, now, selected, parked, peer, runner>>

\* thread t makes the backend call of db.incr("k1"), which the backend
\* carries out atomically, and returns
WorkerCall(t) ==
  /\ threads[t].pc = "calling"
  /\ LET out == worker_incr("k1", FALSE)
     IN /\ Outcome("incr", [key |-> "k1", thread |-> t], out)
        /\ threads' = [threads EXCEPT ![t].pc = IF out.kind = "return" THEN "idle"
                                                 ELSE "raised",
                                      ![t].done = IF out.kind = "return" THEN @ + 1 ELSE @]
  /\ UNCHANGED <<selected, parked, peer, runner>>

NextThreads ==
  \/ \E u \in CodecUrls : Construct(u, TRUE, TRUE, "", TRUE)
  \/ \E t \in Threads : WorkerEnter(t)
  \/ \E t \in Threads : WorkerCall(t)
  \/ Get("k1", FALSE)

SpecThreads == Init /\ [][NextThreads]_vars

RECURSIVE DoneBy(_)
DoneBy(S) == IF S = {} THEN 0
             ELSE LET t == CHOOSE x \in S : TRUE IN threads[t].done + DoneBy(S \ {t})

AllDone == \A t \in Threads : threads[t].done = IncrPerThread

\* C18: with T threads making N incr calls each on one shared session whose
\* counter starts at 0, the stored counter equals the number of completed
\* calls at every moment of every interleaving, and T * N once all threads
\* have finished.
C18_ConcurrentIncr ==
  /\ CounterOf("k1") = DoneBy(Threads)
  /\ AllDone => get("k1", FALSE).val = PyBytes(StrInt(NumThreads * IncrPerThread))

C18_Witness ==
  /\ AllDone /\ mode = "embedded"
  /\ last.op = "incr" /\ last.val = PyInt(NumThreads * IncrPerThread)
  /\ Lookup("k1").v = StrInt(NumThreads * IncrPerThread)

----------------------------------------------------------------------------
(* Logical databases: SELECT and FLUSHDB                                   *)

\* an outcome or reply together with the database selection it leaves
WithDb(out, sel, pk) == out @@ [selected |-> sel, parked |-> pk]

\* int redlite_select(db, db_num): 0, or -1 on failure
redlite_select(db_num, fault) ==
  IF fault THEN WithDb(Reply(-1, EngineFailure, store), selected, parked)
  ELSE IF db_num = selected THEN WithDb(Reply(0, "", store), selected, parked)
  ELSE WithDb(Reply(0, "", parked[db_num]), db_num,
              [parked EXCEPT ![selected] = store, ![db_num] = EmptyStore])

\* int redlite_flushdb(db): 0, or -1 on failure
redlite_flushdb(fault) ==
  IF fault THEN Reply(-1, EngineFailure, store)
  ELSE Reply(0, "", EmptyStore)

redis_select(db, fault) ==
  LET r == redlite_select(db, fault) IN FromServer(r, PyBool(TRUE))

redis_flushdb(fault) ==
  LET r == redlite_flushdb(fault) IN FromServer(r, PyBool(TRUE))

\* select() that answers True without a backend call
select_without_backend(db, fault) ==
  IF check_open # "ok" THEN WithDb(Closed, selected, parked)
  ELSE WithDb(Ret(PyBool(TRUE), 0, "", store, lastError), selected, parked)

\* Redlite.select
select(db, fault) ==
  LET r == redlite_select(db, fault)
      out == IF check_open # "ok" THEN Closed
             ELSE IF mode = "server" THEN Server(redis_select(db, fault))
             ELSE Native(CheckThenReturn(r.ret < 0, PyBool(r.ret = 0), r.bfail,
                                         r.store, r.lastError))
  IN IF out.calls = 0 THEN WithDb(out, selected, parked)
     ELSE WithDb(out, r.selected, r.parked)

\* Redlite.flushdb
flushdb(fault) ==
  IF check_open # "ok" THEN Closed
  ELSE IF mode = "server" THEN Server(redis_flushdb(fault))
  ELSE Native(LET r == redlite_flushdb(fault)
              IN CheckThenReturn(r.ret < 0, PyBool(r.ret = 0), r.bfail, r.store,
                                 r.lastError))

Select(db, fault) ==
  LET out == select(db, fault)
  IN /\ Outcome("select", [db |-> db], out)
     /\ selected' = out.selected
     /\ parked' = out.parked
     /\ UNCHANGED <<threads, peer, runner>>

Flushdb(fault) == Call("flushdb", PyNone, flushdb(fault))

NextDb ==
  \/ \E u \in CodecUrls : Construct(u, TRUE, TRUE, "", TRUE)
  \/ \E d \in Dbs, fault \in BOOLEAN : Select(d, fault)
  \/ \E k \in Keys, v \in {V0, V1} : Set(k, v, NoOpt, NoOpt, FALSE, FALSE, FALSE)
  \/ \E k \in Keys : Get(k, FALSE)
  \/ \E k \in Keys : Delete(<<k>>, FALSE)
  \/ \E fault \in BOOLEAN : Flushdb(fault)

SpecDb == Init /\ [][NextDb]_vars

\* what is readable in logical database j
DataOf(j) == IF j = selected THEN store ELSE parked[j]

\* C19: a set, delete or flushdb made while database i is selected changes
\* nothing readable in a database j # i; select changes no database's data,
\* and a select(i) that returns leaves i selected, so that what is read
\* after it is what was last written in i.
C19_DatabasesIsolated ==
  [][\A j \in Dbs :
       /\ (last'.op \in {"set", "delete", "flushdb"} /\ j # selected) =>
             /\ selected' = selected
             /\ DataOf(j)' = DataOf(j)
       /\ last'.op = "select" =>
             /\ DataOf(j)' = DataOf(j)
             /\ (last'.kind = "return" /\ last'.bfail = "") =>
                   /\ last'.val = PyBool(TRUE)
                   /\ selected' = last'.arg.db
             /\ last'.kind = "raise" => selected' = selected]_vars

C19_Witness ==
  /\ last.op = "flushdb" /\ last.kind = "return" /\ mode = "embedded"
  /\ selected = 1 /\ store = EmptyStore
  /\ DataOf(0)["k1"] = StrEntry(<<118>>, NoExpiry)

----------------------------------------------------------------------------
(* Two sessions in one process                                             *)

\* the session object the program is talking to, with its backend's data
ThisSession ==
  [phase |-> phase, url |-> url, mode |-> mode, handle |-> handle, redis |-> redis,
   live |-> live, releases |-> releases, nullCloses |-> nullCloses,
   closedHist |-> closedHist, engine |-> engine, store |-> store]

\* the two sessions were opened on one database: the same path or the same
\* server; every open of ":memory:" makes a database of its own
SameDatabase ==
  /\ engine \in {"file", "network"}
  /\ engine = peer.engine /\ url = peer.url

\* the data readable through the other session
PeerView == IF SameDatabase THEN store ELSE peer.store

\* the other session's object, without the data behind it
PeerObject == [f \in (DOMAIN peer) \ {"store"} |-> peer[f]]

\* the program turns to its other session object
Switch ==
  /\ phase' = peer.phase /\ url' = peer.url /\ mode' = peer.mode
  /\ handle' = peer.handle /\ redis' = peer.redis /\ live' = peer.live
  /\ releases' = peer.releases /\ nullCloses' = peer.nullCloses
  /\ closedHist' = peer.closedHist /\ engine' = peer.engine
  /\ store' = PeerView
  /\ peer' = ThisSession
  /\ last' = [NoCall EXCEPT !.op = "switch"]
  /\ UNCHANGED <<lastError, now, selected, parked, threads, runner>>

\* both objects have been constructed (as in db1 = Redlite(..); db2 = Redlite(..))
BothBuilt == phase # "uninit" /\ peer.phase # "uninit"

TwoUrls == {MemoryUrl, <<"/", "d", "b">>, RedisScheme \o <<"h">>}

NextTwo ==
  \/ \E u \in TwoUrls : Construct(u, TRUE, TRUE, "", TRUE)
  \/ Switch
  \/ \E v \in {V0, V1} : BothBuilt /\ Set("k1", v, NoOpt, NoOpt, FALSE, FALSE, FALSE)
  \/ BothBuilt /\ Get("k1", FALSE)
  \/ BothBuilt /\ Delete(<<"k1">>, FALSE)
  \/ BothBuilt /\ Close

SpecTwo == Init /\ [][NextTwo]_vars

\* C20: with two sessions opened on ":memory:", no operation on one of them,
\* close included, changes the data readable through the other or the
\* other's open or closed state.
C20_MemorySessionsIndependent ==
  [][(/\ url = MemoryUrl /\ peer.url = MemoryUrl
      /\ last'.op \in {"set", "get", "delete", "close"}) =>
        /\ PeerView' = PeerView
        /\ PeerObject' = PeerObject]_vars

C20_Witness ==
  /\ url = MemoryUrl /\ peer.url = MemoryUrl
  /\ last.op = "get" /\ last.val = PyBytes(<<118>>)
  /\ PeerView["k1"] = StrEntry(<<119>>, NoExpiry)
  /\ peer.closedHist /\ peer.handle = "None" /\ handle = "H"

----------------------------------------------------------------------------
(* Reopening a database: Redlite.open, close, Redlite.open again           *)

\* the connection string names a filesystem path: neither ":memory:" nor a
\* redis:// or rediss:// URL
IsPath(u) ==
  /\ u # MemoryUrl
  /\ ~StartsWith(u, RedisScheme) /\ ~StartsWith(u, RedissScheme)

\* Redlite.open opening ":memory:" whatever path it is given
Redlite_open_memory_only(path, libOk, openOk, msg, redisOk) ==
  Redlite_init(MemoryUrl, libOk, openOk, msg, redisOk)

\* Redlite.open(path, cache_mb): return cls(path, cache_mb=cache_mb)
Redlite_open(path, libOk, openOk, msg, redisOk) ==
  Redlite_init(path, libOk, openOk, msg, redisOk)

\* the data behind a database that the engine opens as eng at u while the
\* program's previous session was on the database now in store: a path and
\* a server keep what was written to them, ":memory:" starts empty
OpenedData(eng, u) ==
  IF eng \in {"file", "network"} /\ eng = engine /\ u = url
  THEN store ELSE EmptyStore

\* db = Redlite.open(path), the program's first session or, after it has
\* used one, its next (the earlier object is kept as the peer)
Open(path, libOk, openOk, msg, redisOk) ==
  LET r == Redlite_open(path, libOk, openOk, msg, redisOk)
  IN /\ peer.phase = "uninit"
     /\ phase' = IF r.kind = "return" THEN "constructed" ELSE "failed"
     /\ url' = path /\ mode' = r.mode /\ handle' = r.handle /\ redis' = r.redis
     /\ live' = r.live /\ engine' = r.engine /\ lastError' = r.lastError
     /\ releases' = 0 /\ nullCloses' = 0 /\ closedHist' = FALSE
     /\ store' = OpenedData(r.engine, path)
     /\ peer' = IF phase = "uninit" THEN peer ELSE ThisSession
     /\ last' = [NoCall EXCEPT !.op = "open", !.arg = PyStr(path),
                               !.kind = r.kind, !.err = r.err,
                               !.cls = IF r.kind # "raise" THEN ""
                                       ELSE IF r.err \in BuiltinErrors THEN r.err
                                       ELSE FfiRedliteError]
     /\ UNCHANGED <<now, selected, parked, threads, runner>>

NextReopen ==
  \/ \E u \in TwoUrls, openOk \in BOOLEAN : Open(u, TRUE, openOk, "", TRUE)
  \/ \E v \in {V0, V1} : Set("k1", v, NoOpt, NoOpt, FALSE, FALSE, FALSE)
  \/ Get("k1", FALSE)
  \/ Delete(<<"k1">>, FALSE)
  \/ Close

SpecReopen == Init /\ [][NextReopen]_vars

\* the program closed a session on a filesystem path and has just opened
\* its next session on the same path
ReopenedPath ==
  /\ last.op = "open" /\ last.kind = "return"
  /\ IsPath(url) /\ peer.url = url
  /\ peer.mode = "embedded" /\ peer.closedHist

\* C21: data written through an embedded session opened on a filesystem
\* path survives close: when the closed session last held v under k (after
\* set(k, v)), get(k) on a new session opened on the same path returns v.
C21_DataSurvivesClose ==
  [][\A v \in {V0, V1} :
       (/\ ReopenedPath
        /\ peer.store["k1"] = StrEntry(Plain(v), NoExpiry)
        /\ last'.op = "get")
       => last'.kind = "return" /\ last'.val = PyBytes(Plain(v))]_vars

C21_Witness ==
  /\ last.op = "get" /\ last.kind = "return" /\ last.val = PyBytes(<<119>>)
  /\ IsPath(url) /\ peer.url = url /\ peer.closedHist /\ mode = "embedded"
  /\ peer.store["k1"] = StrEntry(<<119>>, NoExpiry)
  /\ handle = "H" /\ peer.handle = "None"

\* C22: Redlite.open(path, cache_mb) opens an embedded database: for every
\* path string the session it returns has mode 'embedded'.
C22_OpenIsEmbedded ==
  (last.op = "open" /\ last.kind = "return") => Redlite_mode = "embedded"

----------------------------------------------------------------------------
(* Frame specification: commands of every family on an open or closed      *)
(* session of either mode, succeeding and failing in the backend           *)

NextFrame ==
  \/ \E u \in CodecUrls : Construct(u, TRUE, TRUE, "", TRUE)
  \/ Close
  \/ \E fault \in BOOLEAN : Get("k1", fault)
  \/ \E v \in {V0, PyInt(2)}, fault \in BOOLEAN :
        Set("k1", v, NoOpt, NoOpt, FALSE, FALSE, fault)
  \/ \E fault \in BOOLEAN : Delete(<<"k1", "k2">>, fault)
  \/ \E fault \in BOOLEAN : Ttl("k1", fault)
  \/ \E fault \in BOOLEAN : Hset("k2", <<<<"f1", V0>>>>, <<>>, fault)
  \/ \E fault \in BOOLEAN : Rpush("k2", <<V0>>, fault)
  \/ \E fault \in BOOLEAN : Sadd("k2", <<V0, V1>>, fault)
  \/ \E fault \in BOOLEAN : Incr("k1", fault)
  \/ \E fault \in BOOLEAN : Renamenx("k1", "k2", fault)
  \/ \E fault \in BOOLEAN : Execute(<<"VCARD", "k1">>, fault)

SpecFrame == Init /\ [][NextFrame]_vars

SurfaceOps == CommandOps \cup {"incr", "renamenx"}

\* C24: no command-surface operation other than close changes session-level
\* state: over any command on an open session, returning or raising, the
\* mode, the backend handle and every other attribute of the session object
\* stay as they were; the session has no counter or buffer that a command
\* changes.
C24_CommandsKeepSession ==
  [][(last'.op \in SurfaceOps /\ live) =>
       /\ Redlite_mode' = Redlite_mode
       /\ handle' = handle /\ redis' = redis
       /\ PeerObject' = PeerObject
       /\ sessVars' = sessVars]_vars

C24_Witness ==
  /\ last.op = "rpush" /\ last.kind = "raise" /\ last.bfail = EngineFailure
  /\ last.wasLive /\ live /\ handle = "H" /\ mode = "embedded"
  /\ Lookup("k1").t = "string"

----------------------------------------------------------------------------
(* Removing commands and EXISTS                                            *)

\* int64_t redlite_exists(db, keys, keys_len): how many of the keys exist
redlite_exists(keys, keys_len, fault) ==
  IF fault THEN Reply(-1, EngineFailure, store)
  ELSE Reply(Cardinality({i \in 1..keys_len : Lookup(keys[i]).t # "none"}), "", store)

\* int64_t redlite_hdel(db, key, fields, fields_len): the number of fields
\* removed; a hash left without fields is removed
redlite_hdel(key, fields, fields_len, fault) ==
  LET e == Lookup(key)
      old == IF e.t = "hash" THEN e.h ELSE <<>>
      given == {fields[i] : i \in 1..fields_len}
      left == (DOMAIN old) \ given
  IN IF fault THEN Reply(-1, EngineFailure, store)
     ELSE IF e.t \notin {"none", "hash"} THEN Reply(-1, WrongType, store)
     ELSE Reply(Cardinality(given \cap DOMAIN old), "",
                [store EXCEPT ![key] =
                   IF left = {} THEN NoEntry
                   ELSE HashEntry([f \in left |-> old[f]], ExpOf(e))])

\* int64_t redlite_srem(db, key, members, members_len)
redlite_srem(key, members, members_len, fault) ==
  LET e == Lookup(key)
      old == IF e.t = "set" THEN e.m ELSE {}
      given == {Pointee(members[i]) : i \in 1..members_len}
  IN IF fault THEN Reply(-1, EngineFailure, store)
     ELSE IF e.t \notin {"none", "set"} THEN Reply(-1, WrongType, store)
     ELSE Reply(Cardinality(given \cap old), "",
                [store EXCEPT ![key] =
                   IF old \ given = {} THEN NoEntry
                   ELSE SetEntry(old \ given, ExpOf(e))])

\* int64_t redlite_zrem(db, key, members, members_len)
redlite_zrem(key, members, members_len, fault) ==
  LET e == Lookup(key)
      old == IF e.t = "zset" THEN e.z ELSE <<>>
      given == {Pointee(members[i]) : i \in 1..members_len}
      left == (DOMAIN old) \ given
  IN IF fault THEN Reply(-1, EngineFailure, store)
     ELSE IF e.t \notin {"none", "zset"} THEN Reply(-1, WrongType, store)
     ELSE Reply(Cardinality(given \cap DOMAIN old), "",
                [store EXCEPT ![key] =
                   IF left = {} THEN NoEntry
                   ELSE ZSetEntry([m \in left |-> old[m]], ExpOf(e))])

redis_exists(keys, fault) ==
  LET r == redlite_exists(keys, Len(keys), fault) IN FromServer(r, PyInt(r.ret))

redis_hdel(key, fields, fault) ==
  LET r == redlite_hdel(key, fields, Len(fields), fault) IN FromServer(r, PyInt(r.ret))

redis_srem(key, members, fault) ==
  LET r == redlite_srem(key, [i \in 1..Len(members) |-> Bulk(redis_encode(members[i]))],
                        Len(members), fault)
  IN FromServer(r, PyInt(r.ret))

redis_zrem(key, members, fault) ==
  LET r == redlite_zrem(key, [i \in 1..Len(members) |-> Bulk(redis_encode(members[i]))],
                        Len(members), fault)
  IN FromServer(r, PyInt(r.ret))

\* Redlite.exists
exists(keys, fault) ==
  IF check_open # "ok" THEN Closed
  ELSE IF keys = <<>> THEN Ret(PyInt(0), 0, "", store, lastError)
  ELSE IF mode = "server" THEN Server(redis_exists(keys, fault))
  ELSE Native(LET r == redlite_exists(keys, Len(keys), fault)
              IN CheckThenReturn(r.ret < 0, PyInt(r.ret), r.bfail, r.store, r.lastError))

\* Redlite.hdel
hdel(key, fields, fault) ==
  IF check_open # "ok" THEN Closed
  ELSE IF fields = <<>> THEN Ret(PyInt(0), 0, "", store, lastError)
  ELSE IF mode = "server" THEN Server(redis_hdel(key, fields, fault))
  ELSE Native(LET r == redlite_hdel(key, fields, Len(fields), fault)
              IN CheckThenReturn(r.ret < 0, PyInt(r.ret), r.bfail, r.store, r.lastError))

\* Redlite.srem
srem(key, members, fault) ==
  IF check_open # "ok" THEN Closed
  ELSE IF members = <<>> THEN Ret(PyInt(0), 0, "", store, lastError)
  ELSE IF mode = "server" THEN Server(redis_srem(key, members, fault))
  ELSE Native(LET encoded == [i \in 1..Len(members) |-> encode_value(members[i])]
                  r == redlite_srem(key, make_bytes_array(encoded), Len(members), fault)
              IN CheckThenReturn(r.ret < 0, PyInt(r.ret), r.bfail, r.store, r.lastError))

\* Redlite.zrem
zrem(key, members, fault) ==
  IF check_open # "ok" THEN Closed
  ELSE IF members = <<>> THEN Ret(PyInt(0), 0, "", store, lastError)
  ELSE IF mode = "server" THEN Server(redis_zrem(key, members, fault))
  ELSE Native(LET encoded == [i \in 1..Len(members) |-> encode_value(members[i])]
                  r == redlite_zrem(key, make_bytes_array(encoded), Len(members), fault)
              IN CheckThenReturn(r.ret < 0, PyInt(r.ret), r.bfail, r.store, r.lastError))

----------------------------------------------------------------------------
(* The oracle runner: values of the specification documents                *)

\* a str that names a key or a hash field (names stay symbolic)
PyName(n) == [t |-> "name", n |-> n]

\* a dict, as its items <<key, value>> in insertion order
PyDict(d) == [t |-> "dict", d |-> d]

\* an exception of class c raised while a value is computed
PyError(c) == [t |-> "error", c |-> c]

\* {"bytes": [b1, ..., bn]}: how a specification document writes a byte string
BytesMarker(b) ==
  PyDict(<<<<PyName("bytes"), PyList([i \in 1..Len(b) |-> PyInt(b[i])])>>>>)

\* key in d, d[key]
HasKey(d, key) == \E i \in 1..Len(d.d) : d.d[i][1] = key
DictGet(d, key) == d.d[CHOOSE i \in 1..Len(d.d) : d.d[i][1] = key][2]

\* the first exception among the values of a sequence, if there is one
Errors(q) == {i \in 1..Len(q) : q[i].t = "error"}
FirstError(q) == q[CHOOSE i \in Errors(q) : \A j \in Errors(q) : i <= j]

\* bytes(x): of a list of ints in 0..255, of a count, of a byte string
bytes(x) ==
  IF x.t = "list"
  THEN IF \E i \in 1..Len(x.l) : x.l[i].t # "int" THEN PyError("TypeError")
       ELSE IF \E i \in 1..Len(x.l) : x.l[i].i \notin 0..255 THEN PyError("ValueError")
       ELSE PyBytes([i \in 1..Len(x.l) |-> x.l[i].i])
  ELSE IF x.t = "int"
  THEN (IF x.i < 0 THEN PyError("ValueError") ELSE PyBytes([i \in 1..x.i |-> 0]))
  ELSE IF x.t = "bytes" THEN x
  ELSE PyError("TypeError")

\* OracleRunner._process_arg
RECURSIVE process_arg(_)
process_arg(arg) ==
  IF arg.t = "dict" /\ HasKey(arg, PyName("bytes"))
  THEN bytes(DictGet(arg, PyName("bytes")))
  ELSE IF arg.t = "list"
  THEN LET items == [i \in 1..Len(arg.l) |-> process_arg(arg.l[i])]
       IN IF Errors(items) # {} THEN FirstError(items) ELSE PyList(items)
  ELSE arg

\* a UTF-8 continuation byte
IsCont(b, i) == i <= Len(b) /\ b[i] \in 128..191

\* the code points of UTF-8 bytes, with bad in place of every byte that
\* starts no well-formed sequence
RECURSIVE Utf8Decode(_, _)
Utf8Decode(b, bad) ==
  IF b = <<>> THEN <<>>
  ELSE IF b[1] < 128 THEN <<b[1]>> \o Utf8Decode(Tail(b), bad)
  ELSE IF b[1] \in 194..223 /\ IsCont(b, 2)
  THEN <<(b[1] - 192) * 64 + (b[2] - 128)>> \o Utf8Decode(SubSeq(b, 3, Len(b)), bad)
  ELSE IF b[1] \in 224..239 /\ IsCont(b, 2) /\ IsCont(b, 3)
  THEN <<(b[1] - 224) * 4096 + (b[2] - 128) * 64 + (b[3] - 128)>>
       \o Utf8Decode(SubSeq(b, 4, Len(b)), bad)
  ELSE IF b[1] \in 240..244 /\ IsCont(b, 2) /\ IsCont(b, 3) /\ IsCont(b, 4)
  THEN <<(b[1] - 240) * 262144 + (b[2] - 128) * 4096 + (b[3] - 128) * 64 + (b[4] - 128)>>
       \o Utf8Decode(SubSeq(b, 5, Len(b)), bad)
  ELSE <<bad>> \o Utf8Decode(Tail(b), bad)

\* bytes.decode("utf-8")
decode(b) ==
  LET s == Utf8Decode(b, -1)
  IN IF \E i \in 1..Len(s) : s[i] = -1 THEN PyError("UnicodeDecodeError") ELSE PyStr(s)

\* bytes.decode("utf-8", errors="replace"): U+FFFD for what cannot be decoded
decode_replace(b) == PyStr(Utf8Decode(b, 65533))

\* str.lower() of the command names the documents use
LowerCase ==
  [DEL |-> "del", EXISTS |-> "exists", MGET |-> "mget", MSET |-> "mset",
   HSET |-> "hset", HDEL |-> "hdel", HMGET |-> "hmget", ZADD |-> "zadd",
   ZREM |-> "zrem", SADD |-> "sadd", SREM |-> "srem", LPUSH |-> "lpush",
   RPUSH |-> "rpush", GET |-> "get", SET |-> "set", INCR |-> "incr",
   HGET |-> "hget", HGETALL |-> "hgetall", LRANGE |-> "lrange",
   SMEMBERS |-> "smembers", ZSCORE |-> "zscore", ZRANGE |-> "zrange",
   ZREVRANGE |-> "zrevrange", FROB |-> "frob"]

lower(s) == IF s \in DOMAIN LowerCase THEN LowerCase[s] ELSE s

----------------------------------------------------------------------------
(* The oracle runner: dispatch of one operation to the session             *)

\* the methods that class Redlite defines
SessionMethods ==
  {"open", "connect", "mode", "close", "get", "set", "setex", "psetex", "getdel",
   "append", "strlen", "getrange", "setrange", "incr", "decr", "incrby", "decrby",
   "incrbyfloat", "delete", "exists", "type", "ttl", "pttl", "expire", "pexpire",
   "expireat", "pexpireat", "persist", "rename", "renamenx", "keys", "dbsize",
   "flushdb", "select", "hset", "hget", "hdel", "hexists", "hlen", "hkeys", "hvals",
   "hincrby", "lpush", "rpush", "lpop", "rpop", "llen", "lrange", "lindex", "sadd",
   "srem", "smembers", "sismember", "scard", "zadd", "zrem", "zscore", "zcard",
   "zcount", "zincrby", "vacuum", "version"}

\* the names of the standard method map, in the order of its dict display;
\* each entry is "name": db.name
MethodMap ==
  <<"get", "set", "setex", "psetex", "getdel", "append", "strlen", "getrange",
    "setrange", "incr", "decr", "incrby", "decrby", "incrbyfloat", "type", "ttl",
    "pttl", "expire", "pexpire", "expireat", "pexpireat", "persist", "rename",
    "renamenx", "keys", "dbsize", "flushdb", "hget", "hexists", "hlen", "hkeys",
    "hvals", "hincrby", "hgetall", "lpop", "rpop", "llen", "lrange", "lindex",
    "smembers", "sismember", "scard", "zscore", "zcard", "zcount", "zincrby",
    "zrange", "zrevrange">>

\* the names among db.n1, ..., db.nk that are no attribute of the session:
\* evaluating the first of them raises AttributeError
Missing(names) == {i \in 1..Len(names) : names[i] \notin SessionMethods}

\* raise c(msg) inside the runner, without a backend call
RaiseIn(c, msg) == [Raise(msg, 0, "", store, lastError) EXCEPT !.cls = c]

\* the names carried by a sequence of str arguments
NamesOf(q) == [i \in 1..Len(q) |-> q[i].n]

\* bool(x) of an argument
Truthy(x) ==
  CASE x.t = "None" -> FALSE
    [] x.t = "bytes" -> x.b # <<>>
    [] x.t = "list" -> x.l # <<>>
    [] x.t = "dict" -> x.d # <<>>
    [] OTHER -> TRUE

\* db.name(*args, **kwargs) for the methods the model covers, with their
\* arguments in the shapes the methods are documented to take
CallMethod(name, args, kwargs, fault) ==
  IF name \notin SessionMethods THEN RaiseIn("AttributeError", "AttributeError")
  ELSE IF args = <<>> \/ \E i \in 1..Len(args) : args[i].t = "error"
          \/ (name \notin {"delete", "exists"} /\ args[1].t # "name")
  THEN RaiseIn("TypeError", "TypeError")
  ELSE CASE name = "delete" -> delete(NamesOf(args), fault)
         [] name = "exists" -> exists(NamesOf(args), fault)
         [] name = "get" -> get(args[1].n, fault)
         [] name = "set" -> set(args[1].n, args[2], NoOpt, NoOpt, FALSE, FALSE, fault)
         [] name = "incr" -> incr(args[1].n, fault)
         [] name = "hset" ->
              IF Len(args) >= 2 /\ args[2].t = "dict"
              THEN hset(args[1].n,
                        [i \in 1..Len(args[2].d) |-> <<args[2].d[i][1].n, args[2].d[i][2]>>],
                        kwargs, fault)
              ELSE IF Len(args) >= 2 /\ Truthy(args[2])
              THEN RaiseIn("TypeError", "TypeError")
              ELSE hset(args[1].n, <<>>, kwargs, fault)
         [] name = "hget" -> hget(args[1].n, args[2].n, fault)
         [] name = "hdel" -> hdel(args[1].n, NamesOf(Tail(args)), fault)
         [] name = "lpush" -> lpush(args[1].n, Tail(args), fault)
         [] name = "rpush" -> rpush(args[1].n, Tail(args), fault)
         [] name = "lrange" -> lrange(args[1].n, args[2].i, args[3].i, fault)
         [] name = "sadd" -> sadd(args[1].n, Tail(args), fault)
         [] name = "srem" -> srem(args[1].n, Tail(args), fault)
         [] name = "smembers" -> smembers(args[1].n, fault)
         [] name = "zadd" -> zadd(args[1].n, args[2].d, kwargs, fault)
         [] name = "zrem" -> zrem(args[1].n, Tail(args), fault)
         [] name = "zscore" -> zscore(args[1].n, args[2], fault)
         [] OTHER -> Ret([t |-> "opaque", of |-> name], 1, "", store, lastError)

\* the ZADD branch building its mapping from the items, on top of mapping
RECURSIVE zadd_mapping_from(_, _)
zadd_mapping_from(mapping, members) ==
  IF members = <<>> THEN PyDict(mapping)
  ELSE LET item == Head(members)
       IN IF item.t = "list" /\ Len(item.l) = 2
          THEN LET score == item.l[1]
                   member == IF item.l[2].t = "bytes" THEN decode(item.l[2].b)
                                                      ELSE item.l[2]
               IN IF member.t = "error" THEN member
                  ELSE zadd_mapping_from(DictUpdate(mapping, <<<<member, score>>>>),
                                         Tail(members))
          ELSE zadd_mapping_from(mapping, Tail(members))

\* a ZADD branch that leaves the binary members out of the mapping
zadd_mapping_without_bytes(members) ==
  zadd_mapping_from(<<>>, SelectSeq(members,
                                    LAMBDA item : ~(item.t = "list" /\ Len(item.l) = 2
                                                    /\ item.l[2].t = "bytes")))

\* the mapping the ZADD branch builds from [[score, member], ...]
zadd_mapping(members) == zadd_mapping_from(<<>>, members)

\* OracleRunner._execute_cmd(db, op)
execute_cmd(op, fault) ==
  LET cmd == lower(op.cmd)
      args == [i \in 1..Len(op.args) |-> process_arg(op.args[i])]
      kwargs == op.kwargs
      listForm == Len(args) = 2 /\ args[2].t = "list"
      splat == IF listForm THEN <<args[1]>> \o args[2].l ELSE args
  IN IF Errors(args) # {}
     THEN RaiseIn(FirstError(args).c, FirstError(args).c)
     ELSE IF cmd \in {"del", "exists", "mget"}
     THEN LET a == IF args # <<>> /\ args[1].t = "list" THEN args[1].l ELSE args
          IN IF Missing(<<"delete", "exists", "mget">>) # {}
             THEN RaiseIn("AttributeError", "AttributeError")
             ELSE CallMethod(CASE cmd = "del" -> "delete"
                               [] cmd = "exists" -> "exists"
                               [] OTHER -> "mget", a, <<>>, fault)
     ELSE IF cmd = "mset"
     THEN IF args # <<>> /\ \A i \in 1..Len(args) : args[i].t = "list" /\ Len(args[i].l) = 2
          THEN CallMethod("mset",
                          <<PyDict(DictUpdate(<<>>, [i \in 1..Len(args) |->
                                                       <<args[i].l[1], args[i].l[2]>>]))>>,
                          <<>>, fault)
          ELSE CallMethod("mset", <<>>, kwargs, fault)
     ELSE IF cmd = "hset"
     THEN IF Len(args) = 3
          THEN CallMethod("hset", <<args[1], PyDict(<<<<args[2], args[3]>>>>)>>, <<>>, fault)
          ELSE CallMethod("hset", args, kwargs, fault)
     ELSE IF cmd \in {"hdel", "hmget", "zrem", "sadd", "srem", "lpush", "rpush"}
     THEN CallMethod(cmd, splat, <<>>, fault)
     ELSE IF cmd = "zadd"
     THEN IF listForm
          THEN LET mapping == zadd_mapping(args[2].l)
               IN IF mapping.t = "error" THEN RaiseIn(mapping.c, mapping.c)
                  ELSE CallMethod("zadd", <<args[1], mapping>>, <<>>, fault)
          ELSE CallMethod("zadd", args, kwargs, fault)
     ELSE IF Missing(MethodMap) # {} THEN RaiseIn("AttributeError", "AttributeError")
     ELSE IF cmd \notin Range(MethodMap) THEN RaiseIn("ValueError", "Unknown command")
     ELSE CallMethod(cmd, args, kwargs, fault)

----------------------------------------------------------------------------
(* Routing specification: operations of a specification document           *)
(* dispatched one by one to an in-memory session                           *)

\* an operation of a test: {cmd: ..., args: [...], kwargs: {...}}
Op(cmd, args) == [cmd |-> cmd, args |-> args, kwargs |-> <<>>]

K1 == PyName("k1")
F1 == PyName("f1")
BV == BytesMarker(<<118>>)        \* {"bytes": [118]}, the byte string b"v"
BX == BytesMarker(<<0, 255>>)     \* {"bytes": [0, 255]}

\* the element lists of the list-taking commands
ValueLists == {<<V0>>, <<V0, V1>>, <<V1, BV>>, <<BX, V0>>}
FieldLists == {<<F1>>, <<PyName("f2"), F1>>}

ListCmds == {"SADD", "SREM", "LPUSH", "RPUSH", "ZREM", "HDEL"}

ElementLists(cmd) == IF cmd = "HDEL" THEN FieldLists ELSE ValueLists

\* (key, [e1, ..., en]) and (key, e1, ..., en)
ListForm(cmd, es) == Op(cmd, <<K1, PyList(es)>>)
Variadic(cmd, es) == Op(cmd, <<K1>> \o es)

HsetValues == {V0, V1, BX}

\* (key, field, value) and (key, {field: value})
HsetTriple(f, v) == Op("HSET", <<K1, f, v>>)
HsetMapping(f, v) == Op("HSET", <<K1, PyDict(<<<<f, v>>>>)>>)

\* the items of ZADD's list form: [[score, member], ...]
Item(score, member) == PyList(<<score, member>>)

ZaddLists ==
  { <<Item(PyFloat(10), V0)>>,
    <<Item(PyFloat(10), V0), Item(PyInt(2), V1)>>,
    <<Item(PyFloat(10), V0), Item(PyFloat(25), BV)>>,
    <<Item(PyFloat(15), BytesMarker(<<195, 169>>)), Item(PyInt(3), PyStr(<<233>>))>>,
    <<Item(PyFloat(10), V0), PyList(<<PyFloat(20), V1, V1>>)>> }

ZaddList(items) == Op("ZADD", <<K1, PyList(items)>>)
ZaddMapping(d) == Op("ZADD", <<K1, PyDict(d)>>)

RouteOps ==
  {ListForm(cmd, es) : <<cmd, es>> \in {x \in ListCmds \X (ValueLists \cup FieldLists) :
                                          x[2] \in ElementLists(x[1])}}
  \cup {Variadic(cmd, es) : <<cmd, es>> \in {x \in ListCmds \X (ValueLists \cup FieldLists) :
                                               x[2] \in ElementLists(x[1])}}
  \cup {HsetTriple(F1, v) : v \in HsetValues}
  \cup {HsetMapping(F1, v) : v \in HsetValues}
  \cup {ZaddList(items) : items \in ZaddLists}
  \cup {ZaddMapping(<<<<V0, PyFloat(25)>>>>)}
  \cup {Op("DEL", <<PyList(<<K1, PyName("k2")>>)>>), Op("EXISTS", <<PyList(<<K1>>)>>),
        Op("MGET", <<PyList(<<K1>>)>>), Op("MSET", <<PyList(<<K1, V0>>)>>),
        Op("HMGET", <<K1, PyList(<<F1>>)>>), Op("GET", <<K1>>), Op("SET", <<K1, V0>>),
        Op("HGETALL", <<K1>>), Op("ZRANGE", <<K1, PyInt(0), PyInt(-1)>>),
        Op("ZREVRANGE", <<K1, PyInt(0), PyInt(-1)>>), Op("FROB", <<K1>>)}

\* how many elements the operation hands to the collection under its key
Elements(op) ==
  IF Len(op.args) = 2 /\ op.args[2].t \in {"list", "dict"}
  THEN (IF op.args[2].t = "list" THEN Len(op.args[2].l) ELSE Len(op.args[2].d))
  ELSE Len(op.args) - 1

\* the collections stay within the bounds of the model
Fits(op) ==
  /\ op.cmd \in {"LPUSH", "RPUSH"} => ListLen("k1") + Elements(op) <= MaxList
  /\ op.cmd = "SADD" => SetSize("k1") + Elements(op) <= MaxSet
  /\ op.cmd = "ZADD" => ZCard("k1") + Elements(op) <= MaxSet + 1

\* runner._execute_cmd(db, op) called on the program's session
Dispatch(op, fault) ==
  /\ Fits(op)
  /\ Call("dispatch", [op |-> op, fault |-> fault], execute_cmd(op, fault))

NextRoute ==
  \/ Construct(MemoryUrl, TRUE, TRUE, "", TRUE)
  \/ \E op \in RouteOps, fault \in BOOLEAN : Dispatch(op, fault)
  \/ Delete(<<"k1">>, FALSE)

SpecRoute == Init /\ [][NextRoute]_vars

\* the step dispatches op with the given backend fault on an open session
Dispatched(op, fault) ==
  /\ last'.op = "dispatch" /\ last'.arg = [op |-> op, fault |-> fault]
  /\ live

\* the step left the session and reported to its caller what out describes
SameAs(out) ==
  /\ last'.kind = out.kind /\ last'.val = out.val /\ last'.err = out.err
  /\ last'.cls = out.cls /\ store' = out.store

\* the session method a list-taking command stands for, called with the
\* processed elements es
Direct(cmd, es, fault) ==
  LET vs == [i \in 1..Len(es) |-> process_arg(es[i])]
  IN CASE cmd = "SADD" -> sadd("k1", vs, fault)
       [] cmd = "SREM" -> srem("k1", vs, fault)
       [] cmd = "LPUSH" -> lpush("k1", vs, fault)
       [] cmd = "RPUSH" -> rpush("k1", vs, fault)
       [] cmd = "ZREM" -> zrem("k1", vs, fault)
       [] cmd = "HDEL" -> hdel("k1", NamesOf(vs), fault)

\* the list-taking half of C25: (key, [e1, ..., en]) calls the session
\* operation with e1, ..., en in order and equals (key, e1, ..., en)
ListFormIsVariadic ==
  [][\A cmd \in ListCmds, fault \in BOOLEAN :
       \A es \in ElementLists(cmd) :
          Dispatched(ListForm(cmd, es), fault) =>
             /\ SameAs(Direct(cmd, es, fault))
             /\ SameAs(execute_cmd(Variadic(cmd, es), fault))]_vars

\* C25: argument reshaping is purely syntactic: for HDEL, ZREM, SADD, SREM,
\* LPUSH and RPUSH, (key, [e1, ..., en]) invokes the session operation with
\* exactly e1, ..., en in that order, with the state and return value of
\* (key, e1, ..., en); and HSET dispatched as (key, field, value) equals HSET
\* dispatched as (key, {field: value}).
C25_ReshapingIsSyntactic ==
  [][/\ \A cmd \in ListCmds, fault \in BOOLEAN :
          \A es \in ElementLists(cmd) :
             Dispatched(ListForm(cmd, es), fault) =>
                /\ SameAs(Direct(cmd, es, fault))
                /\ SameAs(execute_cmd(Variadic(cmd, es), fault))
     /\ \A v \in HsetValues, fault \in BOOLEAN :
          Dispatched(HsetTriple(F1, v), fault) =>
             SameAs(execute_cmd(HsetMapping(F1, v), fault))]_vars

\* the HSET half for values written as text
HsetFormsAgreeOnText ==
  [][\A v \in {V0, V1}, fault \in BOOLEAN :
       Dispatched(HsetTriple(F1, v), fault) =>
          SameAs(execute_cmd(HsetMapping(F1, v), fault))]_vars

\* the logical commands the router recognises: those with a branch of their
\* own and the names of the standard method map
Recognised ==
  {"del", "exists", "mget", "mset", "hset", "hdel", "hmget", "zadd", "zrem", "sadd",
   "srem", "lpush", "rpush"} \cup Range(MethodMap)

\* C26: every logical command the router recognises - DEL, EXISTS, MGET,
\* MSET, HMGET and every name in its standard method map, including HGETALL,
\* ZRANGE and ZREVRANGE - is dispatched to an operation that the session
\* provides, so dispatching a recognised command on an open session never
\* fails for lack of the operation; DEL and EXISTS given a sole list
\* argument invoke delete / exists with the list's elements as variadic
\* arguments and return its result.
C26_RecognisedCommandsDispatch ==
  [][\A op \in RouteOps, fault \in BOOLEAN :
       (Dispatched(op, fault) /\ lower(op.cmd) \in Recognised) =>
          /\ ~(last'.kind = "raise" /\ last'.cls = "AttributeError")
          /\ (op.cmd = "DEL" /\ Len(op.args) = 1 /\ op.args[1].t = "list") =>
                SameAs(delete(NamesOf(op.args[1].l), fault))
          /\ (op.cmd = "EXISTS" /\ Len(op.args) = 1 /\ op.args[1].t = "list") =>
                SameAs(exists(NamesOf(op.args[1].l), fault))]_vars

\* the text a listed member stands for: a binary member decoded as UTF-8
Text(member) == IF member.t = "bytes" THEN decode(member.b) ELSE member

\* every item is a [score, member] pair whose member is text or decodable
WellFormed(items) ==
  \A i \in 1..Len(items) :
     /\ items[i].t = "list" /\ Len(items[i].l) = 2
     /\ Text(items[i].l[2]).t = "str"

Listed(items) == {Text(items[i].l[2]) : i \in 1..Len(items)}

\* the score of the last item that lists member m
LastScore(items, m) ==
  LET at == {i \in 1..Len(items) : Text(items[i].l[2]) = m}
  IN items[CHOOSE i \in at : \A j \in at : j <= i].l[1]

----------------------------------------------------------------------------
(* The oracle runner: running the tests of a document                      *)

MaxTests == 2     \* tests the runner is given
MaxOps == 2       \* setup operations, and operations, of one test

\* str(actual)
str(actual) == IF actual.t = "str" THEN actual ELSE PyStr(StrOf(actual))

\* a bool, an int or a float as a number of tenths (True == 1)
Tenths(v) ==
  CASE v.t = "bool" -> IF v.x THEN 10 ELSE 0
    [] v.t = "int" -> v.i * 10
    [] v.t = "float" -> v.tenths

\* OracleRunner._compare for an expectation that is None (no "expect"), a
\* bool, an int, a text or a list of these
RECURSIVE compare(_, _)
compare(actual, expected) ==
  IF expected.t = "None" THEN actual.t = "None"
  ELSE IF expected.t \in {"bool", "int"}
  THEN actual.t \in {"bool", "int", "float"} /\ Tenths(actual) = Tenths(expected)
  ELSE IF expected.t = "str"
  THEN (IF actual.t = "bytes" THEN decode_replace(actual.b) = expected
                              ELSE str(actual) = expected)
  ELSE IF expected.t = "list"
  THEN /\ actual.t = "list"
       /\ Len(actual.l) = Len(expected.l)
       /\ \A i \in 1..Len(expected.l) : compare(actual.l[i], expected.l[i])
  ELSE actual = expected

\* an operation with its "expect" entry (None when the entry is absent)
Expect(op, expected) ==
  [cmd |-> op.cmd, args |-> op.args, kwargs |-> op.kwargs, expect |-> expected]

\* how one _execute_cmd call inside _run_test ends: the exception reaches
\* "except Exception", the comparison fails, or the loop goes on
Verdict(out, op, inSetup) ==
  IF out.kind = "raise" THEN "exception"
  ELSE IF ~inSetup /\ ~compare(out.val, op.expect) THEN "mismatch"
  ELSE "continue"

\* _run_test counting a mismatch as failed without an error entry
Counted_mismatch_unrecorded(verdict) ==
  [runner EXCEPT
     !.passed = IF verdict = "pass" THEN @ + 1 ELSE @,
     !.failed = IF verdict # "pass" THEN @ + 1 ELSE @,
     !.errors = IF verdict = "exception"
                THEN Append(@, [test |-> runner.ran + 1, how |-> verdict]) ELSE @,
     !.ran = @ + 1, !.pc = "idle", !.verdict = verdict]

\* the runner when _run_test returns with verdict "pass", "mismatch" or
\* "exception": self.passed += 1, or self.failed += 1 and one error entry
Counted(verdict) ==
  [runner EXCEPT
     !.passed = IF verdict = "pass" THEN @ + 1 ELSE @,
     !.failed = IF verdict # "pass" THEN @ + 1 ELSE @,
     !.errors = IF verdict # "pass"
                THEN Append(@, [test |-> runner.ran + 1, how |-> verdict]) ELSE @,
     !.ran = @ + 1, !.pc = "idle", !.verdict = verdict]

\* _run_test closing the session only after a test that passed
run_test_finally_on_pass_only(verdict) ==
  IF verdict = "pass" THEN close
  ELSE [call |-> "none", arg |-> "None", handle |-> handle, redis |-> redis]

\* the finally clause of _run_test: db.close() on every way out
run_test_finally(verdict) == close

\* the session is left as the finally clause leaves it
Finished(verdict) ==
  LET r == run_test_finally(verdict)
  IN /\ handle' = r.handle /\ redis' = r.redis
     /\ live' = (live /\ r.call = "none")
     /\ releases' = IF live /\ r.call # "none" THEN releases + 1 ELSE releases
     /\ nullCloses' = IF ~live /\ r.call # "none" THEN nullCloses + 1 ELSE nullCloses
     /\ closedHist' = TRUE
     /\ UNCHANGED <<phase, url, mode, engine>>

\* _run_test up to the try statement: db = Redlite(":memory:"); an exception
\* of the constructor leaves _run_test and ends the run
RunTest(libOk, openOk, msg) ==
  LET r == Redlite_init(MemoryUrl, libOk, openOk, msg, TRUE)
  IN /\ runner.pc = "idle" /\ runner.ran < MaxTests
     /\ phase' = IF r.kind = "return" THEN "constructed" ELSE "failed"
     /\ url' = MemoryUrl /\ mode' = r.mode /\ handle' = r.handle /\ redis' = r.redis
     /\ live' = r.live /\ engine' = r.engine /\ lastError' = r.lastError
     /\ releases' = 0 /\ nullCloses' = 0 /\ closedHist' = FALSE
     /\ store' = OpenedData(r.engine, MemoryUrl)
     /\ runner' = [runner EXCEPT !.pc = IF r.kind = "return" THEN "setup" ELSE "crashed",
                                 !.setups = 0, !.results = <<>>, !.verdict = ""]
     /\ last' = [NoCall EXCEPT !.op = "run_test", !.kind = r.kind, !.err = r.err,
                               !.cls = IF r.kind # "raise" THEN ""
                                       ELSE IF r.err \in BuiltinErrors THEN r.err
                                       ELSE FfiRedliteError]
     /\ UNCHANGED <<now, selected, parked, threads, peer>>

\* the rest of the loop body once _execute_cmd has ended as out, and with
\* it the end of the test when the operation raised or missed its expectation
AfterCmd(op, fault, inSetup, out) ==
  LET verdict == Verdict(out, op, inSetup)
      matched == IF inSetup \/ out.kind = "raise" THEN runner.results
                 ELSE Append(runner.results, verdict = "continue")
  IN /\ last' = [op |-> "dispatch", arg |-> [op |-> op, fault |-> fault],
                 kind |-> out.kind, val |-> out.val, err |-> out.err,
                 calls |-> out.calls, bfail |-> out.bfail,
                 afterClose |-> closedHist, wasLive |-> live, cls |-> out.cls]
     /\ store' = out.store /\ lastError' = out.lastError
     /\ IF verdict = "continue"
        THEN /\ runner' = [runner EXCEPT !.results = matched,
                                         !.setups = IF inSetup THEN @ + 1 ELSE @]
             /\ UNCHANGED sessVars
        ELSE /\ runner' = [Counted(verdict) EXCEPT !.results = matched]
             /\ Finished(verdict)
     /\ UNCHANGED <<now, selected, parked, threads, peer>>

\* one pass through the body of a loop of _run_test
RunOp(op, fault, inSetup) ==
  /\ Fits(op)
  /\ AfterCmd(op, fault, inSetup, execute_cmd(op, fault))

\* for op in test.get("setup", []): self._execute_cmd(db, op)
SetupOp(op, fault) ==
  /\ runner.pc = "setup" /\ runner.setups < MaxOps
  /\ RunOp(op, fault, TRUE)

\* the setup loop is through
BeginOperations ==
  /\ runner.pc = "setup"
  /\ runner' = [runner EXCEPT !.pc = "operations"]
  /\ last' = [NoCall EXCEPT !.op = "operations"]
  /\ UNCHANGED <<sessVars, lastError, store, now, selected, parked, threads, peer>>

\* for op in test["operations"]: actual = ...; expected = op.get("expect")
Operation(op, fault) ==
  /\ runner.pc = "operations" /\ Len(runner.results) < MaxOps
  /\ RunOp(op, fault, FALSE)

\* the operations loop is through: self.passed += 1, then the finally clause
Passed ==
  /\ runner.pc = "operations"
  /\ runner' = Counted("pass")
  /\ Finished("pass")
  /\ last' = [NoCall EXCEPT !.op = "passed"]
  /\ UNCHANGED <<lastError, store, now, selected, parked, threads, peer>>

\* the operations the tests are made of
TestOps ==
  { Expect(ListForm("SADD", <<V0, V1>>), PyInt(2)),
    Expect(Variadic("SADD", <<V0>>), PyInt(1)),
    Expect(ListForm("SREM", <<V0>>), PyNone),
    Expect(ListForm("LPUSH", <<V1>>), PyInt(1)),
    Expect(HsetTriple(F1, V0), PyBool(TRUE)),
    Expect(Op("GET", <<K1>>), V0),
    Expect(Op("FROB", <<K1>>), PyNone) }

NextRunner ==
  \/ \E libOk \in BOOLEAN, openOk \in BOOLEAN : RunTest(libOk, openOk, "")
  \/ \E op \in TestOps, fault \in BOOLEAN : SetupOp(op, fault)
  \/ BeginOperations
  \/ \E op \in TestOps, fault \in BOOLEAN : Operation(op, fault)
  \/ Passed

SpecRunner == Init /\ [][NextRunner]_vars

\* C23: dispatching a logical command name that the router does not
\* recognise raises an 'unknown command' error that reaches the caller of
\* the dispatch; it is never turned into a successful result, and the
\* oracle runner records the test that issued it as failed.
C23_UnknownCommandError ==
  (last.op = "dispatch" /\ lower(last.arg.op.cmd) \notin Recognised) =>
     /\ last.kind = "raise"
     /\ last.cls = "ValueError" /\ last.err = "Unknown command"
     /\ runner.pc = "idle" /\ runner.verdict = "exception" /\ runner.failed >= 1

\* what does hold of an unrecognised name: an exception reaches the caller
\* and the test is recorded as failed
UnknownCommandFails ==
  (last.op = "dispatch" /\ lower(last.arg.op.cmd) \notin Recognised) =>
     /\ last.kind = "raise"
     /\ runner.pc = "idle" /\ runner.verdict = "exception" /\ runner.failed >= 1

\* C28: after the oracle runner has run any sequence of tests, every test has
\* been counted exactly once: passed + failed equals the number of tests
\* run and the number of recorded error entries equals failed; a test is
\* counted as passed only if every one of its operations matched its
\* expectation, and a test stops at its first mismatching operation.
C28_EveryTestCountedOnce ==
  [][/\ runner'.passed + runner'.failed = runner'.ran
     /\ Len(runner'.errors) = runner'.failed
     /\ runner'.ran = runner.ran + 1 =>
          \/ runner'.passed = runner.passed + 1 /\ runner'.failed = runner.failed
          \/ runner'.passed = runner.passed /\ runner'.failed = runner.failed + 1
     /\ runner'.ran = runner.ran => runner'.passed = runner.passed
                                    /\ runner'.failed = runner.failed
     /\ runner'.passed > runner.passed =>
          /\ runner.pc = "operations"
          /\ \A i \in 1..Len(runner'.results) : runner'.results[i]
     /\ (/\ last'.op = "dispatch" /\ runner.pc = "operations"
         /\ last'.kind = "return"
         /\ ~compare(last'.val, last'.arg.op.expect)) =>
          /\ runner'.pc = "idle" /\ runner'.verdict = "mismatch"
          /\ runner'.failed = runner.failed + 1
     /\ runner'.pc \in {"setup", "operations"} =>
          \A i \in 1..Len(runner'.results) : runner'.results[i]]_vars

C28_Witness ==
  /\ runner.ran = 2 /\ runner.passed = 1 /\ runner.failed = 1
  /\ runner.verdict = "mismatch" /\ runner.results = <<TRUE, FALSE>>
  /\ Len(runner.errors) = 1 /\ runner.pc = "idle"

\* C29: each oracle test runs against its own freshly opened in-memory
\* session, and that session is closed before the next test starts on every
\* outcome - pass, expectation mismatch or exception in setup or operations
\* - so no session stays open after its test and no data written by one
\* test is visible to another.
C29_FreshSessionPerTest ==
  [][/\ (last'.op = "run_test" /\ last'.kind = "return") =>
          /\ ~live /\ handle = "None"
          /\ live' /\ handle' = "H" /\ mode' = "embedded" /\ url' = MemoryUrl
          /\ store' = EmptyStore
     /\ runner'.pc = "idle" =>
          /\ ~live' /\ handle' = "None"
          /\ runner'.ran > 0 => releases' = 1 /\ closedHist'
     /\ runner'.pc \in {"setup", "operations"} => live' /\ handle' = "H"]_vars

C29_Witness ==
  /\ last.op = "run_test" /\ last.kind = "return"
  /\ runner.ran = 1 /\ runner.verdict = "" /\ runner.failed = 1
  /\ runner.errors[1].how = "exception"
  /\ live /\ handle = "H" /\ store = EmptyStore /\ releases = 0

----------------------------------------------------------------------------
(* scripts/check_regression.py                                             *)

MaxBench == 2     \* benchmark sections in the output file

\* @dataclass BenchmarkResult; the change percentage in tenths, or PyNone
BenchmarkResult(name, change_percent, regression) ==
  [name |-> name, change_percent |-> change_percent, regression |-> regression]

\* a section of the output file as the three patterns see it: whether it
\* has a "<name> time: [...]" line, the median of its "change: [...]" line
\* (PyNone without one) and whether it says "Performance has regressed"
Section(time, change, flagged) == [time |-> time, change |-> change, flagged |-> flagged]

Sections ==
  {Section(time, change, flagged) :
     time \in BOOLEAN, change \in {PyNone, PyFloat(-21), PyFloat(150), PyFloat(152)},
     flagged \in BOOLEAN}

\* float(sys.argv[2]) of a text of decimal digits with an optional sign; any
\* other text of the model raises ValueError
float_of(s) ==
  IF IsInt(s) THEN PyFloat(ParseInt(s) * 10) ELSE PyError("ValueError")

\* parse_benchmark_output: sys.exit(2) when open() or read() raises
\* FileNotFoundError or IOError, else one result per section that has a
\* time line, named by its place
parse_benchmark_output(file) ==
  IF file.read \in {"FileNotFoundError", "IOError"} THEN [exit |-> 2, results |-> <<>>]
  ELSE IF file.read # "ok" THEN [exit |-> 1, results |-> <<>>]
  ELSE LET at == SelectSeq([i \in 1..Len(file.sections) |-> i],
                           LAMBDA i : file.sections[i].time)
       IN [exit |-> -1,
           results |-> [j \in 1..Len(at) |->
                          BenchmarkResult(at[j], file.sections[at[j]].change,
                                          file.sections[at[j]].flagged)]]

\* check_regressions comparing with >=
check_regressions_at_threshold(results, threshold) ==
  SelectSeq(results,
            LAMBDA result :
              \/ result.change_percent # PyNone
                 /\ result.change_percent.tenths >= threshold.tenths
              \/ result.regression)

\* check_regressions(results, threshold): the results it returns
check_regressions(results, threshold) ==
  SelectSeq(results,
            LAMBDA result :
              \/ result.change_percent # PyNone
                 /\ result.change_percent.tenths > threshold.tenths
              \/ result.regression)

\* main(): the exit status and the benchmarks reported
main(argv, file) ==
  IF Len(argv) < 3 THEN [t |-> "exit", code |-> 2, reported |-> <<>>]
  ELSE LET threshold == float_of(argv[3])
           parsed == parse_benchmark_output(file)
       IN IF threshold.t = "error" THEN [t |-> "exit", code |-> 1, reported |-> <<>>]
          ELSE IF parsed.exit # -1 THEN [t |-> "exit", code |-> parsed.exit, reported |-> <<>>]
          ELSE IF parsed.results = <<>> THEN [t |-> "exit", code |-> 0, reported |-> <<>>]
          ELSE LET regressions == check_regressions(parsed.results, threshold)
               IN [t |-> "exit", code |-> IF regressions # <<>> THEN 1 ELSE 0,
                   reported |-> [i \in 1..Len(regressions) |-> regressions[i].name]]

\* the files the script is run on
RECURSIVE SeqsUpTo(_, _)
SeqsUpTo(S, n) ==
  IF n = 0 THEN {<<>>}
  ELSE SeqsUpTo(S, n - 1)
       \cup {Append(q, x) : q \in {p \in SeqsUpTo(S, n - 1) : Len(p) = n - 1}, x \in S}

Files ==
  {[read |-> "ok", sections |-> q] : q \in SeqsUpTo(Sections, MaxBench)}
  \cup {[read |-> r, sections |-> <<>>] :
          r \in {"FileNotFoundError", "IOError", "UnicodeDecodeError"}}

\* sys.argv: the script, the file name and the threshold ("15", "-3", "x")
Argvs ==
  {<<"check_regression.py">>, <<"check_regression.py", "out.txt">>}
  \cup {<<"check_regression.py", "out.txt", th>> : th \in {<<49, 53>>, <<45, 51>>, <<120>>}}

\* python3 check_regression.py ...: one run of the script, from its start
Main(argv, file) ==
  /\ last = NoCall
  /\ last' = [NoCall EXCEPT !.op = "main", !.arg = [argv |-> argv, file |-> file],
                            !.kind = "exit", !.val = main(argv, file)]
  /\ UNCHANGED <<sessVars, lastError, store, now>>
  /\ UNCHANGED auxVars

NextBench == \E argv \in Argvs, file \in Files : Main(argv, file)

SpecBench == Init /\ [][NextBench]_vars

\* the run got as far as check_regressions: three arguments, a numeric
\* threshold and a file that was read
Checked ==
  /\ last.op = "main" /\ Len(last.arg.argv) >= 3
  /\ IsInt(last.arg.argv[3]) /\ last.arg.file.read = "ok"

\* the benchmarks of the file that are to be reported under threshold th
\* (in tenths of a percent)
ToReport(file, th) ==
  {i \in 1..Len(file.sections) :
     /\ file.sections[i].time
     /\ \/ file.sections[i].flagged
        \/ file.sections[i].change # PyNone /\ file.sections[i].change.tenths > th}

====
